---------------------------- MODULE Spec2Model ----------------------------
(***************************************************************************)
(* A model of bag/layout/template.py: the template database (TemplateDB),  *)
(* the template life cycle (TemplateBase) and the canonical identity key   *)
(* (to_immutable_id / compute_unique_key).                                 *)
(*                                                                         *)
(* Python values are tagged tuples:                                        *)
(*   None   <<"none">>            int    <<"int", n>>                      *)
(*   float  <<"float", tenths>>   str    <<"str", chars>>                  *)
(*   list   <<"list", items>>     tuple  <<"tuple", items>>                *)
(*   dict   <<"dict", pairs>>     pairs: <<key, value>> in insertion order *)
(* A Python str is a sequence of one-character strings, so that the        *)
(* formatting of cell names and the sorting of mapping keys are computed.  *)
(***************************************************************************)
EXTENDS Integers, Sequences, FiniteSets, TLC

(***************************************************************************)
(* Bounds of the model.                                                    *)
(***************************************************************************)
\* longest list, tuple or mapping among the canonicalised input values
MaxLen == 2
\* number of template objects constructed in one run of the database
MaxObjs == 3
\* deepest nesting of new_template calls made from inside draw_layout
MaxDepth == 2
\* longest template_list handed to batch_layout
MaxBatch == 2
\* most wire arrays accumulated in the pins of the templates of one run
MaxWires == 2

(***************************************************************************)
(* Python values.                                                          *)
(***************************************************************************)
PyNone == <<"none">>
PyInt(n) == <<"int", n>>
PyFloat(t) == <<"float", t>>
PyStr(s) == <<"str", s>>
PyList(items) == <<"list", items>>
PyTuple(items) == <<"tuple", items>>
PyDict(pairs) == <<"dict", pairs>>
\* an object of a type to_immutable_id does not recognise (a set, say)
PyObj == <<"obj">>

Tag(v) == v[1]
IsScalar(v) == Tag(v) \in {"none", "int", "str", "float"}
IsSeq(v) == Tag(v) \in {"list", "tuple"}
IsDict(v) == Tag(v) = "dict"

\* the characters the model's strings are made of, in code point order
CharOrder == <<".", "0", "1", "2", "3", "4", "5", "6", "7", "8", "9",
               "X", "Y", "Z", "_", "a", "b", "k", "m", "n">>
CharRank(c) == CHOOSE i \in 1..Len(CharOrder) : CharOrder[i] = c

\* s < t for two Python strings: str.__lt__, lexicographic by code point
RECURSIVE StrLess(_, _)
StrLess(s, t) ==
    IF t = <<>> THEN FALSE
    ELSE IF s = <<>> THEN TRUE
    ELSE IF s[1] = t[1] THEN StrLess(Tail(s), Tail(t))
    ELSE CharRank(s[1]) < CharRank(t[1])

\* val.keys() and val[k] for a mapping given as its pairs
DictKeys(pairs) == {pairs[i][1] : i \in 1..Len(pairs)}
DictGet(pairs, k) == pairs[CHOOSE i \in 1..Len(pairs) : pairs[i][1] = k][2]

\* sorted(val.keys()): the keys of the model's mappings are all str
RECURSIVE SortedKeys(_)
SortedKeys(ks) ==
    IF ks = {} THEN <<>>
    ELSE LET m == CHOOSE k \in ks : \A o \in ks \ {k} : StrLess(k[2], o[2])
         IN  <<m>> \o SortedKeys(ks \ {m})

\* the exception to_immutable_id raises for a value of another type
Unrecognized == <<"raise", "Unrecognized value">>

(***************************************************************************)
(* TemplateBase.to_immutable_id.  fix_string only decodes bytes, which the *)
(* model's values do not hold.  An exception raised for an element leaves  *)
(* the generator and so the whole call.                                    *)
(***************************************************************************)
\* the order in which the mapping branch emits the keys
KeyOrder(pairs) == SortedKeys(DictKeys(pairs))

RECURSIVE to_immutable_id(_)
to_immutable_id(val) ==
    IF IsScalar(val) THEN val
    ELSE IF IsSeq(val) THEN
        LET out == [i \in 1..Len(val[2]) |-> to_immutable_id(val[2][i])]
        IN  IF \E i \in 1..Len(out) : out[i] = Unrecognized THEN Unrecognized
            ELSE PyTuple(out)
    ELSE IF IsDict(val) THEN
        LET ks == KeyOrder(val[2])
            out == [i \in 1..Len(ks) |-> to_immutable_id(DictGet(val[2], ks[i]))]
        IN  IF \E i \in 1..Len(out) : out[i] = Unrecognized THEN Unrecognized
            ELSE PyTuple([i \in 1..Len(ks) |-> PyTuple(<<ks[i], out[i]>>)])
    ELSE Unrecognized

(***************************************************************************)
(* Python's == on the model's values: sequences compare element by element *)
(* and only with their own type, mappings compare as sets of items.        *)
(***************************************************************************)
RECURSIVE PyEq(_, _)
PyEq(a, b) ==
    IF Tag(a) # Tag(b) THEN FALSE
    ELSE IF IsSeq(a) THEN
        /\ Len(a[2]) = Len(b[2])
        /\ \A i \in 1..Len(a[2]) : PyEq(a[2][i], b[2][i])
    ELSE IF IsDict(a) THEN
        /\ DictKeys(a[2]) = DictKeys(b[2])
        /\ \A k \in DictKeys(a[2]) : PyEq(DictGet(a[2], k), DictGet(b[2], k))
    ELSE a = b

(***************************************************************************)
(* Template classes.  get_params_info, get_default_param_values,           *)
(* draw_layout and the class's module and name are what a subclass of      *)
(* TemplateBase supplies; the model has two subclasses, m.X and k.Y, both  *)
(* declaring a required parameter n and a parameter b that defaults to 1,  *)
(* and a subclass m.Z that declares n and a and has no defaults.           *)
(***************************************************************************)
ClsX == [module |-> <<"m">>, name |-> <<"X">>]
ClsY == [module |-> <<"k">>, name |-> <<"Y">>]
ClsZ == [module |-> <<"m">>, name |-> <<"Z">>]
Classes == {ClsX, ClsY}

KeyN == PyStr(<<"n">>)
KeyA == PyStr(<<"a">>)
KeyB == PyStr(<<"b">>)

\* the keys of get_params_info(), in the order the dictionary yields them
get_params_info(cls) ==
    IF cls = ClsZ THEN <<KeyN, KeyA>> ELSE <<KeyN, KeyB>>
\* get_default_param_values() as a mapping
get_default_param_values(cls) ==
    IF cls = ClsZ THEN <<>> ELSE <<<<KeyB, PyInt(1)>>>>

\* TemplateBase.get_layout_basename: the class name
get_layout_basename(cls) == cls.name

\* TemplateBase._get_qualified_name
get_qualified_name(cls) ==
    IF cls.module = <<>> THEN cls.name
    ELSE cls.module \o <<".">> \o cls.name

\* '%d' % n for 0 <= n
RECURSIVE Dec(_)
Dec(n) ==
    LET d == CharOrder[2 + (n % 10)]
    IN  IF n < 10 THEN <<d>> ELSE Dec(n \div 10) \o <<d>>

\* '%s_%d' % (basename, counter)
SuffixedName(basename, counter) == basename \o <<"_">> \o Dec(counter)

\* TemplateBase._get_unique_cell_name: the first of basename, basename_1,
\* basename_2, ... that is not in used_names
RECURSIVE UniqueFrom(_, _, _)
UniqueFrom(basename, counter, used) ==
    LET cell_name == IF counter = 0 THEN basename
                     ELSE SuffixedName(basename, counter)
    IN  IF cell_name \in used THEN UniqueFrom(basename, counter + 1, used)
        ELSE cell_name

\* the allocation without the loop over the suffixes (a mutant)
get_unique_cell_name_base(cls, used) == get_layout_basename(cls)

get_unique_cell_name(cls, used) == UniqueFrom(get_layout_basename(cls), 0, used)

\* the parameter named in the ValueError of TemplateBase.__init__, if any:
\* the first declared parameter that is neither given nor defaulted
MissingParams(cls, params) ==
    LET info == get_params_info(cls)
    IN  {i \in 1..Len(info) :
            /\ info[i] \notin DictKeys(params[2])
            /\ info[i] \notin DictKeys(get_default_param_values(cls))}

\* a variant that keeps every entry of the request
FilledParams_all(cls, params) ==
    LET info == get_params_info(cls)
        absent == SelectSeq(info, LAMBDA k : k \notin DictKeys(params[2]))
    IN  PyDict(params[2]
               \o [i \in 1..Len(absent) |->
                      <<absent[i],
                        DictGet(get_default_param_values(cls), absent[i])>>])

\* self.params after the loop of TemplateBase.__init__: one entry per
\* declared parameter, in the order of get_params_info
FilledParams(cls, params) ==
    LET info == get_params_info(cls)
    IN  PyDict([i \in 1..Len(info) |->
                   <<info[i],
                     IF info[i] \in DictKeys(params[2])
                     THEN DictGet(params[2], info[i])
                     ELSE DictGet(get_default_param_values(cls), info[i])>>])

\* TemplateBase.compute_unique_key
compute_unique_key(cls, filled) ==
    to_immutable_id(PyTuple(<<PyStr(get_qualified_name(cls)), filled>>))

(***************************************************************************)
(* State.                                                                  *)
(***************************************************************************)
VARIABLES
    objs,        \* every TemplateBase object constructed so far; its index
                 \* in the sequence is the object's identity
    lookup,      \* TemplateDB._template_lookup: identity key -> object
    used_names,  \* TemplateDB._used_cell_names
    stack,       \* the new_template calls whose draw_layout is running,
                 \* innermost last: the object and the masters it was handed
    exc,         \* an exception is propagating out of the innermost call
    last,        \* the latest call and how it ended
    draw_calls,  \* the objects draw_layout was invoked on, in order
    layout,      \* the latest batch_layout call and what the renderer got
    id_in,       \* two values handed to to_immutable_id
    id_out,      \* and what it returned for them
    name_in,     \* a template and a set handed to _get_unique_cell_name
    name_out,    \* and the cell name it returned
    wires_in,    \* a routing grid and the arguments handed to connect_wires
    wires_out,   \* and how the call ended
    threads,     \* new_template calls running side by side: where each
                 \* stands, what it was asked for and the master it holds
    name_prefix  \* TemplateDB._name_prefix

vars == <<objs, lookup, used_names, stack, exc, last, draw_calls, layout,
          id_in, id_out, name_in, name_out, wires_in, wires_out, threads,
          name_prefix>>
dbvars == <<objs, lookup, used_names, stack, exc, last, draw_calls>>
idvars == <<id_in, id_out, name_in, name_out, wires_in, wires_out, threads,
            name_prefix>>
wirevars == <<wires_in, wires_out>>

\* Optional values: None and a present value
None == {}
Some(x) == {x}
TheValue(o) == CHOOSE x \in o : TRUE

\* the routing grid of the database and one a caller passes explicitly
DbGrid == "g0"
OtherGrid == "g1"
NoGrid == "none"

Range(f) == {f[x] : x \in DOMAIN f}
\* the objects the cache holds
Cached == Range(lookup)

Top == stack[Len(stack)]
Pop == SubSeq(stack, 1, Len(stack) - 1)
NewId == Len(objs) + 1
\* a template of the class with equal parameters is being drawn
Drawing(cls, params) ==
    \E i \in 1..Len(stack) :
        /\ objs[stack[i].id].cls = cls
        /\ PyEq(objs[stack[i].id].params, params)

\* the grid keyword new_template receives: TemplateBase.new_template adds
\* grid=self.grid when draw_layout gives none; a client's call adds nothing
GridKwarg(grid) ==
    IF grid # NoGrid THEN grid
    ELSE IF stack # <<>> THEN objs[Top.id].grid
    ELSE NoGrid

\* a variant whose key depends on the grid as well
TemplateInit_gridkey(cls, params, grid) ==
    LET filled == FilledParams(cls, params)
    IN  [cls         |-> cls,
         params      |-> filled,
         grid        |-> IF grid = NoGrid THEN DbGrid ELSE grid,
         cell_name   |-> get_unique_cell_name(cls, used_names),
         key         |-> PyTuple(<<compute_unique_key(cls, filled),
                                   PyStr(<<grid>>)>>),
         finalized   |-> FALSE,
         children    |-> None,
         insts       |-> {},
         size        |-> None,
         array_box   |-> None,
         port_params |-> <<>>,
         ports       |-> <<>>,
         layout_pins |-> <<>>,
         given       |-> {},
         request     |-> params]

\* TemplateBase.__init__ when no parameter is missing
TemplateInit(cls, params, grid) ==
    LET filled == FilledParams(cls, params)
    IN  [cls         |-> cls,
         params      |-> filled,
         grid        |-> IF grid = NoGrid THEN DbGrid ELSE grid,
         cell_name   |-> get_unique_cell_name(cls, used_names),
         key         |-> compute_unique_key(cls, filled),
         finalized   |-> FALSE,
         children    |-> None,
         insts       |-> {},
         size        |-> None,
         array_box   |-> None,
         port_params |-> <<>>,
         ports       |-> <<>>,
         layout_pins |-> <<>>,
         given       |-> {},
         request     |-> params]

\* the cache check of new_template skipped (a mutant)
CacheHit_never(key) == FALSE

\* key in self._template_lookup
CacheHit(key) == key \in DOMAIN lookup

\* the cached branch returning the candidate it has just built (a mutant)
HitMaster_candidate(cand, key) == cand

\* master = self._template_lookup[key]
HitMaster(cand, key) == lookup[key]

\* the caller of new_template receives the master: draw_layout of the
\* enclosing template, or the client
Deliver(stk, id) ==
    IF stk = <<>> THEN stk
    ELSE [stk EXCEPT ![Len(stk)].refs = @ \cup {id}]

\* no argument recorded
NoArg == <<"none", 0>>

\* what `last` records of a call: the operation, how it ended, the object
\* it concerned, the object it returned and the value it was given
CallRecord(result, obj, ret) ==
    [op |-> "new_template", result |-> result, obj |-> obj, ret |-> ret,
     arg |-> NoArg]

OpRecord(op, result, obj, arg) ==
    [op |-> op, result |-> result, obj |-> obj, ret |-> 0, arg |-> arg]

\* BagLayout.get_masters_set: the keys of the masters of the instances
MastersSet(t) == {objs[m].key : m \in t.insts}

\* ports built for the nets with the show flag only (a mutant)
BuildPorts_shown(t) ==
    LET shown == SelectSeq(t.port_params, LAMBDA rec : rec.show)
    IN  [i \in 1..Len(shown) |->
            [net_name |-> shown[i].net_name, pin_dict |-> shown[i].pins]]

\* self._ports after the loop of finalize: Port(net_name, pin_dict) for
\* every accumulated net, whatever its show flag
BuildPorts(t) ==
    [i \in 1..Len(t.port_params) |->
        [net_name |-> t.port_params[i].net_name,
         pin_dict |-> t.port_params[i].pins]]

\* the wire arrays of a pin_dict, layer after layer
RECURSIVE PinDictWires(_)
PinDictWires(pin_dict) ==
    IF pin_dict = <<>> THEN <<>>
    ELSE Head(pin_dict).wires \o PinDictWires(Tail(pin_dict))

\* self._layout.add_pin(net_name, layer_name, bbox, label=label) for the
\* wire arrays of one record: the pins of a net that is shown
RecordPins(rec) ==
    IF rec.show
    THEN LET wires == PinDictWires(rec.pins)
         IN  [i \in 1..Len(wires) |->
                 [net_name |-> rec.net_name, label |-> rec.label,
                  wire_arr |-> wires[i]]]
    ELSE <<>>

\* the pins the loop of finalize adds to the layout
RECURSIVE FinalizePins(_)
FinalizePins(port_params) ==
    IF port_params = <<>> THEN <<>>
    ELSE RecordPins(Head(port_params)) \o FinalizePins(Tail(port_params))

\* finalize that forgets to set the flag and the children (a mutant)
finalize_noflag(t) == [t EXCEPT !.ports = BuildPorts(t)]

\* TemplateBase.finalize
finalize(t) ==
    [t EXCEPT !.ports = BuildPorts(t),
              !.layout_pins = @ \o FinalizePins(t.port_params),
              !.children = Some(MastersSet(t)),
              !.finalized = TRUE]

(***************************************************************************)
(* TemplateDB.new_template.  The call is split where draw_layout, the      *)
(* subclass's callback, runs: the callback makes nested new_template and   *)
(* add_instance calls before it returns or raises.  A callback does not    *)
(* request the class and parameters of a template that is being drawn      *)
(* further out: drawing is a function of the class and the parameters, so  *)
(* such a request would request itself again without end.                  *)
(***************************************************************************)
\* the ValueError naming the last parameter that is missing (a mutant)
NamedParam_last(cls, params) ==
    LET missing == MissingParams(cls, params)
    IN  get_params_info(cls)[CHOOSE i \in missing : \A j \in missing : j <= i]

\* the parameter the ValueError of TemplateBase.__init__ names: the loop
\* raises at the first declared parameter that is missing
NamedParam(cls, params) ==
    LET missing == MissingParams(cls, params)
    IN  get_params_info(cls)[CHOOSE i \in missing : \A j \in missing : i <= j]

\* what `last` records of a call the constructor refused
MissingRecord(cls, params) ==
    OpRecord("new_template", "missing", 0,
             <<"call", [cls |-> cls, params |-> params,
                        named |-> NamedParam(cls, params)]>>)

\* the constructor raises ValueError: a declared parameter is missing
NewTemplateMissing(cls, params, grid) ==
    /\ ~exc
    /\ MissingParams(cls, params) # {}
    /\ last' = MissingRecord(cls, params)
    /\ exc' = (stack # <<>>)
    /\ UNCHANGED <<objs, lookup, used_names, stack, draw_calls,
                   layout, idvars>>

\* the key is in the cache: the cached master is returned
NewTemplateCached(cls, params, grid) ==
    /\ ~exc
    /\ MissingParams(cls, params) = {}
    /\ Len(objs) < MaxObjs
    /\ LET cand == TemplateInit(cls, params, GridKwarg(grid))
           master == HitMaster(NewId, cand.key)
       IN  /\ CacheHit(cand.key)
           /\ objs' = Append(objs, cand)
           /\ stack' = Deliver(stack, master)
           /\ last' = CallRecord("hit", NewId, master)
    /\ UNCHANGED <<lookup, used_names, exc, draw_calls,
                   layout, idvars>>

\* the key is not in the cache: draw_layout is invoked on the candidate
NewTemplateDraw(cls, params, grid) ==
    /\ ~exc
    /\ MissingParams(cls, params) = {}
    /\ Len(objs) < MaxObjs
    /\ Len(stack) < MaxDepth
    /\ LET cand == TemplateInit(cls, params, GridKwarg(grid))
       IN  /\ ~CacheHit(cand.key)
           /\ ~Drawing(cls, cand.params)
           /\ objs' = Append(objs, cand)
           /\ stack' = Append(stack, [id |-> NewId, refs |-> {}])
           /\ draw_calls' = Append(draw_calls, NewId)
           /\ last' = CallRecord("drawing", NewId, 0)
    /\ UNCHANGED <<lookup, used_names, exc, layout, idvars>>

\* TemplateBase.add_instance, called by draw_layout with a master it got
AddInstance(m) ==
    /\ ~exc
    /\ stack # <<>>
    /\ m \in Top.refs
    /\ m \notin objs[Top.id].insts
    /\ objs' = [objs EXCEPT ![Top.id].insts = @ \cup {m}]
    /\ UNCHANGED <<lookup, used_names, stack, exc, last, draw_calls, layout, idvars>>

\* draw_layout raises, or it returns and finalize raises before it sets
\* children and the flag: new_template is left before line 201 and the
\* candidate is dropped
DrawOrFinalizeRaise ==
    /\ ~exc
    /\ stack # <<>>
    /\ stack' = Pop
    /\ exc' = (Len(stack) > 1)
    /\ last' = CallRecord("raise", Top.id, 0)
    /\ UNCHANGED <<objs, lookup, used_names, draw_calls, layout, idvars>>

\* the exception of a nested new_template leaves the enclosing draw_layout
\* and with it the enclosing new_template
Propagate ==
    /\ exc
    /\ stack' = Pop
    /\ exc' = (Len(stack) > 1)
    /\ last' = CallRecord("raise", Top.id, 0)
    /\ UNCHANGED <<objs, lookup, used_names, draw_calls,
                   layout, idvars>>

\* draw_layout returns, finalize, the cache and the used names are updated
\* and the master is returned (lines 199 to 206)
NewTemplateReturn ==
    /\ ~exc
    /\ stack # <<>>
    /\ LET id == Top.id
           master == finalize(objs[id])
       IN  /\ objs' = [objs EXCEPT ![id] = master]
           /\ lookup' = [k \in DOMAIN lookup \cup {master.key} |->
                            IF k = master.key THEN id ELSE lookup[k]]
           /\ used_names' = used_names \cup {master.cell_name}
           /\ stack' = Deliver(Pop, id)
           /\ last' = CallRecord("miss", id, id)
    /\ UNCHANGED <<exc, draw_calls, layout, idvars>>

(***************************************************************************)
(* TemplateDB.batch_layout.  layout_dict, an OrderedDict, is a sequence of *)
(* entries with distinct names: assigning to a name it holds replaces the  *)
(* master and keeps the position.  template.children is a set, iterated in *)
(* an order the code does not fix, so the helper yields every layout_dict  *)
(* some iteration order produces.                                          *)
(***************************************************************************)
DictNames(d) == {d[i].name : i \in 1..Len(d)}
DictAt(d, name) == d[CHOOSE i \in 1..Len(d) : d[i].name = name].master

\* layout_dict[name] = master
DictSet(d, name, master) ==
    IF name \in DictNames(d)
    THEN [i \in 1..Len(d) |->
             IF d[i].name = name THEN [name |-> name, master |-> master]
             ELSE d[i]]
    ELSE Append(d, [name |-> name, master |-> master])

\* top_cell_name or template.cell_name: None and '' are both <<>>
LayoutName(top_cell_name, t) ==
    IF top_cell_name # <<>> THEN top_cell_name ELSE t.cell_name

\* TemplateDB._instantiate_layout_helper: the layout_dicts it can leave
RECURSIVE LayoutHelper(_, _, _), VisitChildren(_, _)
LayoutHelper(d, id, top_cell_name) ==
    {DictSet(d2, LayoutName(top_cell_name, objs[id]), lookup[objs[id].key]) :
        d2 \in VisitChildren(d, TheValue(objs[id].children))}

VisitChildren(d, keys) ==
    IF keys = {} THEN {d}
    ELSE UNION {
        LET child == lookup[k]
            after == IF objs[child].cell_name \notin DictNames(d)
                     THEN LayoutHelper(d, child, <<>>)
                     ELSE {d}
        IN  UNION {VisitChildren(d2, keys \ {k}) : d2 \in after}
        : k \in keys}

\* the loop of batch_layout over zip(template_list, name_list) from
\* position i on: the pairs of layout_dict and real_name_list it can end with
RECURSIVE BatchLoop(_, _, _, _, _)
BatchLoop(d, real, templates, names, i) ==
    IF i > Len(templates) \/ i > Len(names) THEN {<<d, real>>}
    ELSE UNION {
        BatchLoop(d2, Append(real, LayoutName(names[i], objs[templates[i]])),
                  templates, names, i + 1)
        : d2 \in LayoutHelper(d, templates[i], names[i])}

\* layout_list: with flatten one entry per requested template, under its
\* real name; else one entry per entry of layout_dict, in its order
LayoutList(d, real, flatten) ==
    IF flatten
    THEN [i \in 1..Len(real) |->
             [name |-> real[i], master |-> DictAt(d, real[i])]]
    ELSE d

\* the name check looking at the first name only (a mutant)
NameUsed_first(names, used) == names # <<>> /\ names[1] \in used

\* the error check of batch_layout: some name is in _used_cell_names
NameUsed(names, used) == \E i \in 1..Len(names) : names[i] \in used

\* a variant that records the top-level names as used
BatchLayout_record(template_list, name_list, flatten) ==
    /\ ~exc
    /\ stack = <<>>
    /\ layout.status = "none"
    /\ LET names == IF name_list = None
                    THEN [i \in 1..Len(template_list) |-> <<>>]
                    ELSE TheValue(name_list)
           call == [flatten |-> flatten, templates |-> template_list,
                    names |-> name_list]
       IN  IF Len(names) # Len(template_list)
           THEN layout' = [call |-> call, status |-> "length mismatch",
                           entries |-> <<>>]
           ELSE IF NameUsed(names, used_names)
           THEN layout' = [call |-> call, status |-> "name used",
                           entries |-> <<>>]
           ELSE \E r \in BatchLoop(<<>>, <<>>, template_list, names, 1) :
                   layout' = [call |-> call, status |-> "rendered",
                              entries |-> LayoutList(r[1], r[2], flatten)]
    /\ used_names' = used_names \cup
           (IF name_list = None THEN {}
            ELSE {TheValue(name_list)[i] : i \in 1..Len(TheValue(name_list))}
                     \ {<<>>})
    /\ UNCHANGED <<objs, lookup, stack, exc, last, draw_calls, idvars>>

\* batch_layout(prj, template_list, name_list, flatten=flatten), called by
\* the client; name_list is None or Some(list), a name None is <<>>.  A run
\* is followed up to its first batch_layout call and on from it.
BatchLayout(template_list, name_list, flatten) ==
    /\ ~exc
    /\ stack = <<>>
    /\ layout.status = "none"
    /\ LET names == IF name_list = None
                    THEN [i \in 1..Len(template_list) |-> <<>>]
                    ELSE TheValue(name_list)
           call == [flatten |-> flatten, templates |-> template_list,
                    names |-> name_list]
       IN  IF Len(names) # Len(template_list)
           THEN layout' = [call |-> call, status |-> "length mismatch",
                           entries |-> <<>>]
           ELSE IF NameUsed(names, used_names)
           THEN layout' = [call |-> call, status |-> "name used",
                           entries |-> <<>>]
           ELSE \E r \in BatchLoop(<<>>, <<>>, template_list, names, 1) :
                   layout' = [call |-> call, status |-> "rendered",
                              entries |-> LayoutList(r[1], r[2], flatten)]
    /\ UNCHANGED <<dbvars, idvars>>

(***************************************************************************)
(* The parameter values the callers pass.                                  *)
(***************************************************************************)
DictAB == PyDict(<<<<KeyA, PyInt(1)>>, <<KeyB, PyInt(2)>>>>)
DictBA == PyDict(<<<<KeyB, PyInt(2)>>, <<KeyA, PyInt(1)>>>>)
PairsAB == PyList(<<PyList(<<KeyA, PyInt(1)>>), PyList(<<KeyB, PyInt(2)>>)>>)

ParamN(v) == PyDict(<<<<KeyN, v>>>>)
ParamInputs == {ParamN(PyInt(1)), ParamN(DictAB), ParamN(PairsAB)}

NoLayout ==
    [call |-> [flatten |-> FALSE, templates |-> <<>>, names |-> None],
     status |-> "none", entries |-> <<>>]

\* a database as TemplateDB.__init__ leaves it
InitDb ==
    /\ objs = <<>>
    /\ lookup = <<>>
    /\ used_names = {}
    /\ stack = <<>>
    /\ exc = FALSE
    /\ last = OpRecord("init", "none", 0, NoArg)
    /\ draw_calls = <<>>
    /\ layout = NoLayout

Init ==
    /\ InitDb
    /\ name_prefix = <<>>
    /\ id_in = <<>>
    /\ id_out = <<>>
    /\ name_in = None
    /\ name_out = None
    /\ wires_in = None
    /\ wires_out = None
    /\ threads = <<>>

Next ==
    \/ \E cls \in Classes, params \in ParamInputs :
          NewTemplateCached(cls, params, NoGrid)
    \/ \E cls \in Classes, params \in ParamInputs :
          NewTemplateDraw(cls, params, NoGrid)
    \/ \E m \in 1..Len(objs) : AddInstance(m)
    \/ DrawOrFinalizeRaise
    \/ Propagate
    \/ NewTemplateReturn

Spec == Init /\ [][Next]_vars

(***************************************************************************)
(* The runs of the database in which no call raises and no request is      *)
(* repeated, followed by batch_layout calls of the client.                 *)
(***************************************************************************)
BatchParamInputs == {ParamN(PyInt(1)), ParamN(DictAB)}
TopNameInputs == {<<>>, <<"k">>, <<"X">>}

\* the lists of length n over S
Lists(S, n) == [1..n -> S]

\* the name_list arguments tried with a template_list of length n: None,
\* the lists of length n and those one shorter
NameListInputs(n) ==
    {None} \cup {Some(l) : l \in Lists(TopNameInputs, n)}
           \cup {Some(l) : l \in Lists(TopNameInputs, n - 1)}

NextBatch ==
    \/ \E cls \in Classes, params \in BatchParamInputs :
          NewTemplateDraw(cls, params, NoGrid)
    \/ \E m \in 1..Len(objs) : AddInstance(m)
    \/ NewTemplateReturn
    \/ \E n \in 1..MaxBatch :
          \E template_list \in Lists(Cached, n),
             name_list \in NameListInputs(n), flatten \in BOOLEAN :
                BatchLayout(template_list, name_list, flatten)

SpecBatch == Init /\ [][NextBatch]_vars

(***************************************************************************)
(* The size, array_box and grid properties of TemplateBase.  Each setter   *)
(* yields the template after the assignment and how the assignment ended.  *)
(***************************************************************************)
\* the size setter without the test of the flag (a mutant)
size_setter_unguarded(t, new_size) ==
    [obj |-> [t EXCEPT !.size = Some(new_size)], result |-> "ok"]

\* @size.setter
size_setter(t, new_size) ==
    IF ~t.finalized
    THEN [obj |-> [t EXCEPT !.size = Some(new_size)], result |-> "ok"]
    ELSE [obj |-> t, result |-> "raise"]

\* @array_box.setter
array_box_setter(t, new_array_box) ==
    IF ~t.finalized
    THEN [obj |-> [t EXCEPT !.array_box = Some(new_array_box)],
          result |-> "ok"]
    ELSE [obj |-> t, result |-> "raise"]

\* @grid.setter
grid_setter(t, new_grid) ==
    IF ~t.finalized
    THEN [obj |-> [t EXCEPT !.grid = new_grid], result |-> "ok"]
    ELSE [obj |-> t, result |-> "raise"]

\* the templates the running code holds: draw_layout its own template and
\* the masters it was handed, the client the masters of the cache
Held ==
    IF stack # <<>> THEN {Top.id} \cup Top.refs ELSE Cached

\* an assignment to an attribute of template t, by draw_layout or by the
\* client; a RuntimeError raised inside draw_layout leaves draw_layout
Assign(op, t, r, arg) ==
    /\ ~exc
    /\ t \in Held
    /\ objs' = [objs EXCEPT ![t] = r.obj]
    /\ last' = OpRecord(op, r.result, t, arg)
    /\ exc' = (r.result = "raise" /\ stack # <<>>)
    /\ UNCHANGED <<lookup, used_names, stack, draw_calls, layout, idvars>>

\* template.size = new_size
SetSize(t, new_size) ==
    Assign("set_size", t, size_setter(objs[t], new_size),
           <<"size", new_size>>)

\* template.array_box = new_array_box
SetArrayBox(t, new_array_box) ==
    Assign("set_array_box", t, array_box_setter(objs[t], new_array_box),
           <<"array_box", new_array_box>>)

\* template.grid = new_grid
SetGrid(t, new_grid) ==
    Assign("set_grid", t, grid_setter(objs[t], new_grid),
           <<"grid", new_grid>>)

\* sizes (layer, num_x_block, num_y_block) and array boxes (left, bottom,
\* width, height, in resolution units) the callers assign
SizeInputs == {<<3, 1, 1>>, <<4, 2, 1>>}
ArrayBoxInputs == {<<0, 0, 4, 2>>, <<1, 0, 2, 2>>}
GridInputs == {DbGrid, OtherGrid}

TmplParamInputs == {ParamN(PyInt(1)), PyDict(<<>>)}

NextTmpl ==
    \/ \E params \in TmplParamInputs, grid \in {NoGrid, OtherGrid} :
          NewTemplateMissing(ClsX, params, grid)
    \/ \E params \in TmplParamInputs, grid \in {NoGrid, OtherGrid} :
          NewTemplateCached(ClsX, params, grid)
    \/ \E params \in TmplParamInputs, grid \in {NoGrid, OtherGrid} :
          NewTemplateDraw(ClsX, params, grid)
    \/ \E t \in 1..Len(objs), new_size \in SizeInputs : SetSize(t, new_size)
    \/ \E t \in 1..Len(objs), new_array_box \in ArrayBoxInputs :
          SetArrayBox(t, new_array_box)
    \/ \E t \in 1..Len(objs), new_grid \in GridInputs : SetGrid(t, new_grid)
    \/ Propagate
    \/ NewTemplateReturn

SpecTmpl == Init /\ [][NextTmpl]_vars

(***************************************************************************)
(* Pins and ports.  _port_params, a dict, is the sequence of its records   *)
(* in insertion order: the net name, the label, the show flag and pins,    *)
(* the lists of wire arrays per layer, again in insertion order.  A wire   *)
(* array is the layer and the track it is on.                              *)
(***************************************************************************)
WireArray(layer_id, track) == [layer_id |-> layer_id, track |-> track]

PortNets(port_params) ==
    {port_params[i].net_name : i \in 1..Len(port_params)}
PortIndex(port_params, net_name) ==
    CHOOSE i \in 1..Len(port_params) : port_params[i].net_name = net_name

\* port_pins[layer_id] = [wire_arr], or port_pins[layer_id].append(wire_arr)
PinsAdd(port_pins, wire_arr) ==
    IF \E i \in 1..Len(port_pins) : port_pins[i].layer_id = wire_arr.layer_id
    THEN [i \in 1..Len(port_pins) |->
             IF port_pins[i].layer_id = wire_arr.layer_id
             THEN [port_pins[i] EXCEPT !.wires = Append(@, wire_arr)]
             ELSE port_pins[i]]
    ELSE Append(port_pins,
                [layer_id |-> wire_arr.layer_id, wires |-> <<wire_arr>>])

\* the loop over the wire arrays
RECURSIVE PinsAddAll(_, _)
PinsAddAll(port_pins, wire_arr_list) ==
    IF wire_arr_list = <<>> THEN port_pins
    ELSE PinsAddAll(PinsAdd(port_pins, Head(wire_arr_list)),
                    Tail(wire_arr_list))

\* the shared body comparing the label and not the show flag (a mutant)
ExportPins_labelonly(t, net_name, wire_arr_list, label, show) ==
    LET label2 == IF label = <<>> THEN net_name ELSE label
        pp == IF net_name \notin PortNets(t.port_params)
              THEN Append(t.port_params,
                          [net_name |-> net_name, label |-> label2,
                           pins |-> <<>>, show |-> show])
              ELSE t.port_params
        i == PortIndex(pp, net_name)
    IN  IF pp[i].label # label2
        THEN [obj |-> [t EXCEPT !.port_params = pp], result |-> "raise"]
        ELSE [obj |-> [t EXCEPT !.port_params =
                          [pp EXCEPT ![i].pins = PinsAddAll(@, wire_arr_list)]],
              result |-> "ok"]

\* the body add_pin and reexport share from `label = label or net_name` on:
\* the record is created when the net is new, the label and the show flag
\* are compared with the record's and the wire arrays are appended
ExportPins(t, net_name, wire_arr_list, label, show) ==
    LET label2 == IF label = <<>> THEN net_name ELSE label
        pp == IF net_name \notin PortNets(t.port_params)
              THEN Append(t.port_params,
                          [net_name |-> net_name, label |-> label2,
                           pins |-> <<>>, show |-> show])
              ELSE t.port_params
        i == PortIndex(pp, net_name)
    IN  IF pp[i].label # label2 \/ pp[i].show # show
        THEN [obj |-> [t EXCEPT !.port_params = pp], result |-> "raise"]
        ELSE [obj |-> [t EXCEPT !.port_params =
                          [pp EXCEPT ![i].pins = PinsAddAll(@, wire_arr_list)]],
              result |-> "ok"]

\* TemplateBase.add_pin; a single WireArray is the list that holds it
add_pin(t, net_name, wire_arr_list, label, show) ==
    ExportPins(t, net_name, wire_arr_list, label, show)

\* the wire arrays a Port yields when iterated: those of every layer
RECURSIVE PortWires(_)
PortWires(pin_dict) ==
    IF pin_dict = <<>> THEN <<>>
    ELSE Head(pin_dict).wires \o PortWires(Tail(pin_dict))

\* TemplateBase.reexport
reexport(t, port, net_name, label, show) ==
    ExportPins(t, IF net_name = <<>> THEN port.net_name ELSE net_name,
               PortWires(port.pin_dict), label, show)

\* the number of wire arrays accumulated in the pins of one template and
\* of all the templates but t, counted to bound the runs
RECURSIVE PinCount(_)
PinCount(port_params) ==
    IF port_params = <<>> THEN 0
    ELSE Len(PortWires(Head(port_params).pins)) + PinCount(Tail(port_params))

RECURSIVE PinCountOthers(_, _)
PinCountOthers(t, n) ==
    IF n = 0 THEN 0
    ELSE (IF n = t THEN 0 ELSE PinCount(objs[n].port_params))
         + PinCountOthers(t, n - 1)

PinsWithinBound(t, after) ==
    PinCount(after.port_params) + PinCountOthers(t, Len(objs)) <= MaxWires

\* the outcome r of a pin call with the net name the call was given noted
\* in the template: the history of the names given to add_pin and reexport
Given(r, net_name) == [r EXCEPT !.obj.given = @ \cup {net_name}]

\* what `last` records of the arguments of add_pin and reexport: the net
\* name, the label (label or net_name) and the show flag
PinArg(net_name, label, show) ==
    <<"pin", [net_name |-> net_name,
              label |-> IF label = <<>> THEN net_name ELSE label,
              show |-> show]>>

\* template.add_pin(net_name, wire_arr_list, label=label, show=show)
AddPin(t, net_name, wire_arr_list, label, show) ==
    LET r == Given(add_pin(objs[t], net_name, wire_arr_list, label, show),
                   net_name)
    IN  /\ PinsWithinBound(t, r.obj)
        /\ Assign("add_pin", t, r, PinArg(net_name, label, show))

\* template.reexport(master.get_port(name), net_name=net_name, label=label,
\* show=show) for a port of a finalized master m
Reexport(t, m, p, net_name, label, show) ==
    /\ m \in Held
    /\ p \in 1..Len(objs[m].ports)
    /\ LET port == objs[m].ports[p]
           net == IF net_name = <<>> THEN port.net_name ELSE net_name
           r == Given(reexport(objs[t], port, net_name, label, show), net)
       IN  /\ PinsWithinBound(t, r.obj)
           /\ Assign("reexport", t, r, PinArg(net, label, show))

NetInputs == {<<"a">>, <<"b">>}
LabelInputs == {<<>>, <<"b">>}
WireInputs == {WireArray(1, 0), WireArray(2, 0)}
WireListInputs == {<<w>> : w \in WireInputs}
PinParamInputs == {ParamN(PyInt(1)), ParamN(PyInt(2))}

NextPins ==
    \/ \E params \in PinParamInputs : NewTemplateDraw(ClsX, params, NoGrid)
    \/ \E t \in 1..Len(objs), net_name \in NetInputs,
          wire_arr_list \in WireListInputs, label \in LabelInputs,
          show \in BOOLEAN :
             AddPin(t, net_name, wire_arr_list, label, show)
    \/ \E t \in 1..Len(objs), m \in 1..Len(objs), p \in 1..MaxWires,
          net_name \in {<<>>, <<"b">>}, show \in BOOLEAN :
             Reexport(t, m, p, net_name, <<>>, show)
    \/ Propagate
    \/ NewTemplateReturn

SpecPins == Init /\ [][NextPins]_vars

(***************************************************************************)
(* to_immutable_id applied to two values.  The values are the scalars, the *)
(* lists, tuples and mappings of at most MaxLen entries over them, lists   *)
(* and tuples of those, mappings of mappings and values of a type the      *)
(* function does not recognise.                                            *)
(***************************************************************************)
\* the sequences over S of length at most n
SeqsUpTo(S, n) == UNION {[1..k -> S] : k \in 0..n}

IdScalars == {PyNone, PyInt(1), PyInt(2), PyStr(<<"a">>), PyFloat(15)}

IdFlat ==
    LET items == SeqsUpTo({PyInt(1), PyInt(2)}, MaxLen)
    IN  {PyList(s) : s \in items} \cup {PyTuple(s) : s \in items}

\* the mappings with keys 'a' and 'b' and values in vals, in every
\* insertion order
DictsOver(vals) ==
    {PyDict(s) : s \in {q \in SeqsUpTo({KeyA, KeyB} \X vals, MaxLen) :
                            \A i, j \in 1..Len(q) : q[i][1] = q[j][1] => i = j}}

IdDicts == DictsOver({PyInt(1), PyInt(2)})

IdElems ==
    {PyList(<<PyInt(1)>>), PyTuple(<<PyInt(1)>>),
     PyDict(<<<<KeyA, PyInt(1)>>>>), PyList(<<PyList(<<KeyA, PyInt(1)>>)>>)}

IdNested ==
    LET items == SeqsUpTo(IdElems, MaxLen)
    IN  {PyList(s) : s \in items} \cup {PyTuple(s) : s \in items}
        \cup DictsOver({DictAB, DictBA})
        \cup {PyObj, PyList(<<PyObj>>), PyDict(<<<<KeyA, PyObj>>>>)}

IdInputs == IdScalars \cup IdFlat \cup IdDicts \cup IdNested

InitId ==
    /\ InitDb
    /\ name_prefix = <<>>
    /\ id_in \in IdInputs \X IdInputs
    /\ id_out = <<>>
    /\ name_in = None
    /\ name_out = None
    /\ wires_in = None
    /\ wires_out = None
    /\ threads = <<>>

\* to_immutable_id(val) for each of the two values
ToImmutableId ==
    /\ id_out = <<>>
    /\ id_out' = <<to_immutable_id(id_in[1]), to_immutable_id(id_in[2])>>
    /\ UNCHANGED <<dbvars, layout, id_in, name_in, name_out, wirevars, threads,
                   name_prefix>>

NextId == ToImmutableId

SpecId == InitId /\ [][NextId]_vars

(***************************************************************************)
(* _get_unique_cell_name applied to a set of used names, next to a         *)
(* database that constructs templates.  The sets hold the base name and    *)
(* its suffixed forms up to some number, with at most one of them left     *)
(* out, and the name of the other class.                                   *)
(***************************************************************************)
\* the largest suffix among the used names handed to _get_unique_cell_name
MaxSuffix == 11

\* basename for 0, basename_n for n >= 1
NthName(basename, n) ==
    IF n = 0 THEN basename ELSE SuffixedName(basename, n)

UsedNameInputs(cls) ==
    LET base == get_layout_basename(cls)
        upto(m) == {NthName(base, j) : j \in 0..m}
    IN  {{}, {<<"Y">>}}
        \cup {upto(m) : m \in 0..MaxSuffix}
        \cup {upto(m) \ {NthName(base, g)} : m, g \in 0..MaxSuffix}

InitName ==
    /\ InitDb
    /\ name_prefix = <<>>
    /\ id_in = <<>>
    /\ id_out = <<>>
    /\ \E cls \in Classes :
          name_in \in {Some([cls |-> cls, used |-> u]) :
                          u \in UsedNameInputs(cls)}
    /\ name_out = None
    /\ wires_in = None
    /\ wires_out = None
    /\ threads = <<>>

\* template._get_unique_cell_name(used_names)
UniqueCellName ==
    /\ name_out = None
    /\ name_out' = Some(get_unique_cell_name(TheValue(name_in).cls,
                                              TheValue(name_in).used))
    /\ UNCHANGED <<dbvars, layout, id_in, id_out, name_in, wirevars, threads,
                   name_prefix>>

NameParamInputs == {ParamN(PyInt(1)), ParamN(PyInt(2))}

NextName ==
    \/ UniqueCellName
    \/ \E params \in NameParamInputs : NewTemplateCached(ClsX, params, NoGrid)
    \/ \E params \in NameParamInputs : NewTemplateDraw(ClsX, params, NoGrid)
    \/ NewTemplateReturn

SpecName == InitName /\ [][NextName]_vars

(***************************************************************************)
(* The runs of the database in which callers leave parameters out.         *)
(***************************************************************************)
ParamA(v) == PyDict(<<<<KeyA, v>>>>)
ParamNA(v, w) == PyDict(<<<<KeyN, v>>, <<KeyA, w>>>>)

MissingClasses == {ClsX, ClsZ}
MissingParamInputs ==
    {PyDict(<<>>), ParamN(PyInt(1)), ParamA(PyInt(1)),
     ParamNA(PyInt(1), PyInt(1))}

NextMissing ==
    \/ \E cls \in MissingClasses, params \in MissingParamInputs :
          NewTemplateMissing(cls, params, NoGrid)
    \/ \E cls \in MissingClasses, params \in MissingParamInputs :
          NewTemplateCached(cls, params, NoGrid)
    \/ \E cls \in MissingClasses, params \in MissingParamInputs :
          NewTemplateDraw(cls, params, NoGrid)
    \/ Propagate
    \/ NewTemplateReturn

SpecMissing == Init /\ [][NextMissing]_vars

(***************************************************************************)
(* Claims about TemplateDB.new_template, checked under Spec.               *)
(***************************************************************************)
DrawsOfKey(key) == {i \in 1..Len(draw_calls) : objs[draw_calls[i]].key = key}

C2_CachedMasterReturned ==
    [][(last'.result = "hit" /\ last' # last) =>
          /\ last'.ret = lookup[objs'[last'.obj].key]
          /\ last'.ret # last'.obj
          /\ draw_calls' = draw_calls
          /\ \A i \in 1..Len(objs) : objs'[i] = objs[i]
          /\ ~objs'[last'.obj].finalized
          /\ lookup' = lookup]_vars

\* a call returned a cached master built by an earlier call
C2_Witness ==
    /\ last.result = "hit"
    /\ last.ret < last.obj
    /\ last.ret \in Cached

\* C3, as claimed: two templates cached under different keys never have the
\* same cell_name.
C3_CellNamesUnique ==
    \A k1, k2 \in DOMAIN lookup :
        k1 # k2 => objs[lookup[k1]].cell_name # objs[lookup[k2]].cell_name

\* C7: every template in the cache is finalized, with its children set
\* computed, and no template that is constructed or drawing is in the cache.
C7_CacheHoldsFinalized ==
    /\ \A k \in DOMAIN lookup :
          /\ objs[lookup[k]].finalized
          /\ objs[lookup[k]].children # None
    /\ \A i \in 1..Len(stack) : stack[i].id \notin Cached
    /\ \A id \in 1..Len(objs) : ~objs[id].finalized => id \notin Cached

\* a template with a child is cached while another template is drawing
C7_Witness ==
    /\ stack # <<>>
    /\ \E k \in DOMAIN lookup : TheValue(objs[lookup[k]].children) # {}

\* C8, as claimed: when draw_layout or finalize raises, the error reaches
\* the caller of new_template, the cache has no entry for the template's
\* key and the used names do not hold its cell name.
C8_FailedCallLeavesNoTrace ==
    (last.op = "new_template" /\ last.result = "raise") =>
        /\ exc = (stack # <<>>)
        /\ objs[last.obj].key \notin DOMAIN lookup
        /\ objs[last.obj].cell_name \notin used_names

\* C10, as claimed: a template returned from the cache has the class of
\* the request and parameters equal to the request's, up to the insertion
\* order of mapping keys.
C10_CachedMasterHasEqualParams ==
    last.result = "hit" =>
        /\ objs[last.ret].cls = objs[last.obj].cls
        /\ PyEq(objs[last.ret].params, objs[last.obj].params)

(***************************************************************************)
(* Claims about TemplateDB.batch_layout, checked under SpecBatch.          *)
(***************************************************************************)
\* C4, as claimed: in a hierarchical batch_layout that passes the name
\* check, every child of a template among the entries handed to the
\* renderer has an entry at an earlier position, whatever template_list and
\* name_list are.  Stated for databases whose cell names are distinct, so
\* that a violation does not rest on two cells sharing a name.
C4_ChildrenBeforeParents ==
    (/\ layout.status = "rendered"
     /\ ~layout.call.flatten
     /\ C3_CellNamesUnique) =>
        \A j \in 1..Len(layout.entries) :
            \A k \in TheValue(objs[layout.entries[j].master].children) :
                \E i \in 1..(j - 1) : layout.entries[i].master = lookup[k]

(***************************************************************************)
(* Claims about the attributes of a template, checked under SpecTmpl.      *)
(***************************************************************************)
SetterOps == {"set_size", "set_array_box", "set_grid"}

\* the attribute of template t that the operation op assigns, as the
\* argument of the assignment is recorded
StoredValue(t, op) ==
    IF op = "set_size" THEN
        IF t.size = None THEN NoArg ELSE <<"size", TheValue(t.size)>>
    ELSE IF op = "set_array_box" THEN
        IF t.array_box = None THEN NoArg
        ELSE <<"array_box", TheValue(t.array_box)>>
    ELSE <<"grid", t.grid>>

\* C5: an assignment to size, array_box or grid of a finalized template
\* raises and leaves the template as it was; on a template that is not
\* finalized it succeeds and the attribute then holds the assigned value,
\* the other attributes being untouched.  No step of any operation changes
\* the three attributes of a finalized template.
C5_SettersGuardedByFinalize ==
    [][/\ (last' # last /\ last'.op \in SetterOps) =>
             LET t == last'.obj
             IN  IF objs[t].finalized
                 THEN /\ last'.result = "raise"
                      /\ objs' = objs
                 ELSE /\ last'.result = "ok"
                      /\ StoredValue(objs'[t], last'.op) = last'.arg
                      /\ \A op \in SetterOps \ {last'.op} :
                            StoredValue(objs'[t], op) = StoredValue(objs[t], op)
       /\ \A i \in 1..Len(objs) :
             objs[i].finalized =>
                \A op \in SetterOps :
                    StoredValue(objs'[i], op) = StoredValue(objs[i], op)]_vars

\* a size assigned during drawing is still stored after an assignment of
\* another size to the finalized template was refused
C5_Witness ==
    /\ last.op = "set_size"
    /\ last.result = "raise"
    /\ objs[last.obj].finalized
    /\ objs[last.obj].size # None
    /\ StoredValue(objs[last.obj], "set_size") # last.arg

(***************************************************************************)
(* Claims about pins and ports, checked under SpecPins.                    *)
(***************************************************************************)
PinOps == {"add_pin", "reexport"}

\* C6, as claimed: an add_pin or reexport call on a finalized template
\* fails with an error and leaves the template's per-net pin records and
\* the wire arrays of the ports built by finalize unchanged.
C6_PinsFrozenByFinalize ==
    [][(last' # last /\ last'.op \in PinOps /\ objs[last'.obj].finalized) =>
          /\ last'.result = "raise"
          /\ objs'[last'.obj].port_params = objs[last'.obj].port_params
          /\ objs'[last'.obj].ports = objs[last'.obj].ports]_vars

(***************************************************************************)
(* Claims about to_immutable_id, checked under SpecId.                     *)
(***************************************************************************)
\* the items of sequence a are pairwise different under Python's ==
DistinctItems(a) ==
    \A i, j \in 1..Len(a[2]) : PyEq(a[2][i], a[2][j]) => i = j

\* sequences a and b, of one type, hold the same items, in another order
Reordered(a, b) ==
    /\ IsSeq(a) /\ Tag(a) = Tag(b)
    /\ Len(a[2]) = Len(b[2])
    /\ \A i \in 1..Len(a[2]) : \E j \in 1..Len(b[2]) : PyEq(a[2][i], b[2][j])
    /\ \A j \in 1..Len(b[2]) : \E i \in 1..Len(a[2]) : PyEq(a[2][i], b[2][j])
    /\ \E i \in 1..Len(a[2]) : ~PyEq(a[2][i], b[2][i])

\* C9, as claimed: to_immutable_id gives equal results for two mappings
\* with the same key/value pairs inserted in different orders, nested
\* mappings included; different results for two sequences that hold the
\* same distinct elements in different orders; and a scalar unchanged.
C9_CanonicalForm ==
    id_out # <<>> =>
        /\ (IsDict(id_in[1]) /\ IsDict(id_in[2]) /\ PyEq(id_in[1], id_in[2]))
              => id_out[1] = id_out[2]
        /\ (Reordered(id_in[1], id_in[2]) /\ DistinctItems(id_in[1]))
              => id_out[1] # id_out[2]
        /\ IsScalar(id_in[1]) => id_out[1] = id_in[1]

(***************************************************************************)
(* Claims about cell names, checked under SpecName.                        *)
(***************************************************************************)
\* cell_name is what the claim allows for basename and the set used: the
\* base name when it is free, else base_n for the smallest n >= 1 that is
\* free; never a member of used
AllocatedName(basename, used, cell_name) ==
    /\ cell_name \notin used
    /\ IF basename \notin used THEN cell_name = basename
       ELSE \E n \in 1..(Cardinality(used) + 1) :
               /\ cell_name = SuffixedName(basename, n)
               /\ \A j \in 1..(n - 1) : SuffixedName(basename, j) \in used

\* C11: _get_unique_cell_name returns the base name if it is not in the
\* used-name set and else base_n for the smallest n >= 1 with base_n not
\* in the set, never a member of the set; a template gets that name at
\* construction, from the used names of that moment, and its cell_name
\* never changes afterwards.
C11_CellNameAllocation ==
    [][/\ name_out' # name_out =>
             AllocatedName(get_layout_basename(TheValue(name_in).cls),
                           TheValue(name_in).used, TheValue(name_out'))
       /\ Len(objs') > Len(objs) =>
             AllocatedName(get_layout_basename(objs'[Len(objs')].cls),
                           used_names, objs'[Len(objs')].cell_name)
       /\ \A i \in 1..Len(objs) : objs'[i].cell_name = objs[i].cell_name]_vars

\* with X, X_1 and X_3 used the name X_2 was allocated, and a template
\* constructed while X was used is cached
C11_Witness ==
    /\ name_out = Some(<<"X", "_", "2">>)
    /\ <<"X", "_", "3">> \in TheValue(name_in).used
    /\ \E k \in DOMAIN lookup : objs[lookup[k]].cell_name = <<"X", "_", "1">>

(***************************************************************************)
(* Claims about missing parameters, checked under SpecMissing.             *)
(***************************************************************************)
\* the declared parameters the call neither gives nor finds a default for
Omitted(cls, params) ==
    {get_params_info(cls)[i] : i \in MissingParams(cls, params)}

\* a step in which new_template fails for a missing parameter
MissingStep == last' # last /\ last'.result = "missing"

\* the failure reaches the caller and leaves draw_layout uncalled and the
\* cache, the used names and the templates as they were
FailsUntouched ==
    /\ exc' = (stack # <<>>)
    /\ draw_calls' = draw_calls
    /\ lookup' = lookup
    /\ used_names' = used_names
    /\ objs' = objs

\* C12, as claimed: a new_template call that omits a declared parameter
\* without default fails with an error naming that parameter, for every
\* such parameter, before draw_layout is called and without changing the
\* cache or the used names.
C12_MissingParamNamed ==
    [][MissingStep =>
          /\ \A key \in Omitted(last'.arg[2].cls, last'.arg[2].params) :
                last'.arg[2].named = key
          /\ FailsUntouched]_vars

\* C12, amended: the error names the first omitted parameter in the order
\* of get_params_info; the call fails before draw_layout is called and
\* without changing the cache or the used names.
C12_FirstMissingParamNamed ==
    [][MissingStep =>
          LET cls == last'.arg[2].cls
              params == last'.arg[2].params
              info == get_params_info(cls)
              named == last'.arg[2].named
          IN  /\ named \in Omitted(cls, params)
              /\ \A i, j \in 1..Len(info) :
                    (info[j] = named /\ i < j) =>
                        info[i] \notin Omitted(cls, params)
              /\ FailsUntouched]_vars

\* a call inside draw_layout that omitted both parameters of Z failed
\* naming n, with a template in the cache
C12_Witness ==
    /\ last.result = "missing"
    /\ Cardinality(Omitted(last.arg[2].cls, last.arg[2].params)) = 2
    /\ last.arg[2].named = KeyN
    /\ exc
    /\ lookup # <<>>

(***************************************************************************)
(* Further claims about batch_layout, checked under SpecBatch.             *)
(***************************************************************************)
\* the names of the latest batch_layout call; none when name_list is None
RequestedNames(lay) ==
    IF lay.call.names = None THEN {}
    ELSE Range(TheValue(lay.call.names))

\* C13: a batch_layout call one of whose names is in the used-cell-name
\* set raises an error, hands nothing to the renderer and leaves the
\* templates, the cache and the used names as they were.
C13_UsedNameRejected ==
    [][(layout' # layout /\ RequestedNames(layout') \cap used_names # {}) =>
          /\ layout'.status \in {"name used", "length mismatch"}
          /\ layout'.entries = <<>>
          /\ UNCHANGED dbvars]_vars

\* a call with two templates was refused for its second name alone
C13_Witness ==
    /\ layout.status = "name used"
    /\ Len(layout.call.templates) = 2
    /\ TheValue(layout.call.names)[1] \notin used_names
    /\ TheValue(layout.call.names)[2] \in used_names

\* a step in which add_pin or reexport was called on a template
PinStep == last' # last /\ last'.op \in PinOps

\* the record template t holds for the net of the call recorded in rec
RecordOf(t, rec) ==
    t.port_params[PortIndex(t.port_params, rec.arg[2].net_name)]

\* the call recorded in rec names a net of t whose record has another
\* label or another show flag
Conflicting(t, rec) ==
    /\ rec.arg[2].net_name \in PortNets(t.port_params)
    /\ \/ RecordOf(t, rec).label # rec.arg[2].label
       \/ RecordOf(t, rec).show # rec.arg[2].show

\* C14: an add_pin or reexport call for a net that has a record with
\* another label (an empty label standing for the net name) or another show
\* flag raises and leaves the records of the template unchanged, whichever
\* of the two operations made the record and whichever makes the call; a
\* call that agrees with the record, or names a new net, does not raise.
C14_ConflictingPortRejected ==
    [][PinStep =>
          IF Conflicting(objs[last'.obj], last')
          THEN /\ last'.result = "raise"
               /\ objs'[last'.obj].port_params = objs[last'.obj].port_params
          ELSE last'.result = "ok"]_vars

\* during drawing a reexport was refused for the show flag of a record
\* that add_pin had made with the same label
C14_Witness ==
    /\ last.op = "reexport"
    /\ last.result = "raise"
    /\ ~objs[last.obj].finalized
    /\ Conflicting(objs[last.obj], last)
    /\ RecordOf(objs[last.obj], last).label = last.arg[2].label
    /\ RecordOf(objs[last.obj], last).pins # <<>>

\* template i is finalized in this step
FinalizedNow(i) == ~objs[i].finalized /\ objs'[i].finalized

\* the port of template t for net_name
PortOf(t, net_name) ==
    t.ports[CHOOSE p \in 1..Len(t.ports) : t.ports[p].net_name = net_name]

\* C15: when finalize completes, the port names of the template are the
\* net names given to add_pin or reexport during drawing, whatever their
\* show flag; each Port holds the wire arrays accumulated for its net,
\* layer by layer; and the pins finalize adds to the layout are those of
\* the nets whose show flag is true, one per accumulated wire array.
C15_PortsBuiltAtFinalize ==
    [][\A i \in 1..Len(objs) : FinalizedNow(i) =>
          LET before == objs[i]
              after == objs'[i]
          IN  /\ {after.ports[p].net_name : p \in 1..Len(after.ports)}
                    = before.given
              /\ Len(after.ports) = Cardinality(before.given)
              /\ \A r \in 1..Len(before.port_params) :
                    PortOf(after, before.port_params[r].net_name).pin_dict
                        = before.port_params[r].pins
              /\ \A r \in 1..Len(before.port_params) :
                    LET rec == before.port_params[r]
                        pins == SelectSeq(after.layout_pins,
                                    LAMBDA pin : pin.net_name = rec.net_name)
                    IN  IF rec.show
                        THEN [k \in 1..Len(pins) |-> pins[k].wire_arr]
                                 = PinDictWires(rec.pins)
                        ELSE pins = <<>>
              /\ \A k \in 1..Len(after.layout_pins) :
                    after.layout_pins[k].net_name \in before.given]_vars

\* a finalized template has a port for a net that is shown and a port for
\* a net that is not, and layout pins for the first only
C15_Witness ==
    \E i \in 1..Len(objs) :
        /\ objs[i].finalized
        /\ Len(objs[i].ports) = 2
        /\ \E r1, r2 \in 1..Len(objs[i].port_params) :
              /\ objs[i].port_params[r1].show
              /\ ~objs[i].port_params[r2].show
        /\ Len(objs[i].layout_pins) = 1

(***************************************************************************)
(* TemplateBase.connect_wires.  The routing grid, the boxes and the        *)
(* IntervalSet are collaborators of the class.  Coordinates are whole      *)
(* numbers of resolution units; a track index and the pitch of a TrackID   *)
(* are counted in half tracks, the finest step of the grid, so that the    *)
(* value 2 is one track.                                                   *)
(***************************************************************************)
MaxHalfTrack == 5
MaxWireList == 3

\* TrackID(layer_id, track_idx, width=..., num=..., pitch=...)
TrackID(layer_id, base_index, width, num, pitch) ==
    [layer_id |-> layer_id, base_index |-> base_index, width |-> width,
     num |-> num, pitch |-> pitch]

\* WireArray(track_id, lower, upper) with all its fields
TrackWires(track_id, lower, upper) ==
    [track_id |-> track_id, lower |-> lower, upper |-> upper]

\* RoutingGrid.track_to_coord: the centre of a track, track -1/2 being
\* at the origin
track_to_coord(track_pitch, htr) == ((htr + 1) * track_pitch) \div 2

\* the drawn width of a wire that is width tracks wide
WireWidth(width) == 2 * width

\* the interval a wire on one track covers across the routing direction
TrackInterval(track_pitch, htr, width) ==
    <<track_to_coord(track_pitch, htr) - WireWidth(width) \div 2,
      track_to_coord(track_pitch, htr) + WireWidth(width) \div 2>>

\* RoutingGrid.interval_to_track: the track index and width of an interval
interval_to_track(track_pitch, intv) ==
    <<(intv[1] + intv[2]) \div track_pitch - 1, (intv[2] - intv[1]) \div 2>>

\* WireArray.get_bbox_array followed by BBox.get_interval across the
\* routing direction: one interval per track of the array
BoxIntervals(track_pitch, warr) ==
    [k \in 1..warr.track_id.num |->
        TrackInterval(track_pitch,
                      warr.track_id.base_index + (k - 1) * warr.track_id.pitch,
                      warr.track_id.width)]

\* IntervalSet: intervals that do not overlap, in increasing order, each
\* with a value
IntvOverlap(a, b) == a[1] < b[2] /\ b[1] < a[2]

\* the position of the interval in the set, 0 when it is not a key
IntvIndex(intv_set, intv) ==
    IF \E k \in 1..Len(intv_set) : intv_set[k].intv = intv
    THEN CHOOSE k \in 1..Len(intv_set) : intv_set[k].intv = intv
    ELSE 0

\* a variant that looks for an overlap with the last member only
IntvAdd_last(intv_set, intv, val) ==
    IF intv_set # <<>> /\ IntvOverlap(intv_set[Len(intv_set)].intv, intv)
    THEN None
    ELSE LET n == Cardinality({k \in 1..Len(intv_set) :
                                  intv_set[k].intv[1] < intv[1]})
         IN  Some(SubSeq(intv_set, 1, n)
                  \o <<[intv |-> intv, val |-> val]>>
                  \o SubSeq(intv_set, n + 1, Len(intv_set)))

\* IntervalSet.add: False, here None, when the interval overlaps a member
IntvAdd(intv_set, intv, val) ==
    IF \E k \in 1..Len(intv_set) : IntvOverlap(intv_set[k].intv, intv)
    THEN None
    ELSE LET n == Cardinality({k \in 1..Len(intv_set) :
                                  intv_set[k].intv[1] < intv[1]})
         IN  Some(SubSeq(intv_set, 1, n)
                  \o <<[intv |-> intv, val |-> val]>>
                  \o SubSeq(intv_set, n + 1, Len(intv_set)))

Min2(a, b) == IF a < b THEN a ELSE b
Max2(a, b) == IF a > b THEN a ELSE b

\* the loop over the boxes of one wire array: widen the range stored for
\* an interval already there, add the others, None when one overlaps
RECURSIVE MergeBoxes(_, _, _)
MergeBoxes(intv_set, box_arr, cur_range) ==
    IF box_arr = <<>> THEN Some(intv_set)
    ELSE LET intv == Head(box_arr)
             k == IntvIndex(intv_set, intv)
             added == IntvAdd(intv_set, intv, cur_range)
         IN  IF k # 0
             THEN MergeBoxes(
                    [intv_set EXCEPT ![k].val =
                        <<Min2(cur_range[1], @[1]), Max2(cur_range[2], @[2])>>],
                    Tail(box_arr), cur_range)
             ELSE IF added = None THEN None
             ELSE MergeBoxes(TheValue(added), Tail(box_arr), cur_range)

\* a variant that keeps the range of the wire as it is
CurRange_own(warr, lower, upper) == <<warr.lower, warr.upper>>

\* the range of one wire array, extended by lower and upper when given
CurRange(warr, lower, upper) ==
    LET r0 == <<warr.lower, warr.upper>>
        r1 == IF lower = None THEN r0
              ELSE <<Min2(r0[1], TheValue(lower)), Max2(r0[2], TheValue(lower))>>
    IN  IF upper = None THEN r1
        ELSE <<Min2(r1[1], TheValue(upper)), Max2(r1[2], TheValue(upper))>>

\* a variant without the test of the layer
LayerDiffers_never(wire_arr, layer_id) == FALSE

\* wire_arr.layer_id != layer_id
LayerDiffers(wire_arr, layer_id) == wire_arr.track_id.layer_id # layer_id

\* the loop over wire_arr_list
RECURSIVE MergeWires(_, _, _, _, _, _)
MergeWires(track_pitch, layer_id, intv_set, wire_arr_list, lower, upper) ==
    IF wire_arr_list = <<>> THEN [result |-> "ok", intv_set |-> intv_set]
    ELSE LET wire_arr == Head(wire_arr_list)
             merged == MergeBoxes(intv_set, BoxIntervals(track_pitch, wire_arr),
                                  CurRange(wire_arr, lower, upper))
         IN  IF LayerDiffers(wire_arr, layer_id)
             THEN [result |-> "raise", error |-> "layer"]
             ELSE IF merged = None
             THEN [result |-> "raise", error |-> "overlap"]
             ELSE MergeWires(track_pitch, layer_id, TheValue(merged),
                             Tail(wire_arr_list), lower, upper)

\* a variant that returns every run as a single wire
RunWires_single(track_pitch, layer_id, g) ==
    LET tr == interval_to_track(track_pitch, g.base_intv)
    IN  TrackWires(TrackID(layer_id, tr[1], tr[2], 1, 0),
                   g.base_range[1], g.base_range[2])

\* the wire array made of the run that just ended
RunWires(track_pitch, layer_id, g) ==
    LET tr == interval_to_track(track_pitch, g.base_intv)
    IN  TrackWires(TrackID(layer_id, tr[1], tr[2], g.count, 2 * g.pitch),
                   g.base_range[1], g.base_range[2])

\* a variant that counts the first wire of a run twice
StartRun_two(g, item) ==
    [g EXCEPT !.base_range = item.val, !.base_intv = item.intv,
              !.base_width = item.intv[2] - item.intv[1],
              !.count = 2, !.pitch = 0]

\* base_range, base_intv, base_width, count and pitch at the first wire
\* of a run
StartRun(g, item) ==
    [g EXCEPT !.base_range = item.val, !.base_intv = item.intv,
              !.base_width = item.intv[2] - item.intv[1],
              !.count = 1, !.pitch = 0]

\* a variant that keeps the pitch in resolution units
RunPitch_units(cur_pitch, track_pitch) == cur_pitch

\* the pitch a second wire gives to its run: cur_pitch // track_pitch
RunPitch(cur_pitch, track_pitch) == cur_pitch \div track_pitch

\* the loop over intv_set.items() and the last run after it
RECURSIVE GroupWires(_, _, _, _)
GroupWires(track_pitch, layer_id, items, g) ==
    IF items = <<>>
    THEN [g EXCEPT !.new_warr_list =
                       Append(@, RunWires(track_pitch, layer_id, g))].new_warr_list
    ELSE LET item == Head(items)
             cur_width == item.intv[2] - item.intv[1]
             cur_lower == item.intv[1]
             cur_pitch == cur_lower - g.last_lower
             flushed == StartRun(
                 [g EXCEPT !.new_warr_list =
                      Append(@, RunWires(track_pitch, layer_id, g))], item)
             g2 == IF g.count = 0 THEN StartRun(g, item)
                   ELSE IF item.val = g.base_range /\ g.base_width = cur_width
                   THEN IF g.count = 1
                        THEN [g EXCEPT !.pitch = RunPitch(cur_pitch, track_pitch),
                                       !.count = 2]
                        ELSE IF g.pitch = cur_pitch
                        THEN [g EXCEPT !.count = @ + 1]
                        ELSE flushed
                   ELSE flushed
         IN  GroupWires(track_pitch, layer_id, Tail(items),
                        [g2 EXCEPT !.last_lower = cur_lower])

NoRun ==
    [base_range |-> <<0, 0>>, base_intv |-> <<0, 0>>, base_width |-> 0,
     count |-> 0, pitch |-> 0, last_lower |-> 0, new_warr_list |-> <<>>]

\* the rectangles add_rect is handed for the wire arrays
RECURSIVE WireRects(_, _)
WireRects(track_pitch, warrs) ==
    IF warrs = <<>> THEN <<>>
    ELSE LET w == Head(warrs)
             b == BoxIntervals(track_pitch, w)
         IN  [k \in 1..Len(b) |->
                 [layer_id |-> w.track_id.layer_id, intv |-> b[k],
                  lower |-> w.lower, upper |-> w.upper]]
             \o WireRects(track_pitch, Tail(warrs))

\* a variant that draws the first wire before the others are checked
connect_wires_eager(track_pitch, wire_arr_list, lower, upper) ==
    IF wire_arr_list = <<>>
    THEN [result |-> "ok", ret |-> <<>>, rects |-> <<>>, tracked |-> <<>>]
    ELSE LET layer_id == wire_arr_list[1].track_id.layer_id
             m == MergeWires(track_pitch, layer_id, <<>>, wire_arr_list,
                             lower, upper)
             new_warr_list == GroupWires(track_pitch, layer_id, m.intv_set, NoRun)
         IN  IF m.result = "raise"
             THEN [result |-> "raise", error |-> m.error,
                   rects |-> WireRects(track_pitch, <<wire_arr_list[1]>>),
                   tracked |-> <<>>]
             ELSE [result |-> "ok", ret |-> new_warr_list,
                   rects |-> WireRects(track_pitch, new_warr_list),
                   tracked |-> new_warr_list]

\* TemplateBase.connect_wires(wire_arr_list, lower=..., upper=...,
\* unit_mode=True) on a grid with the given track pitch
connect_wires(track_pitch, wire_arr_list, lower, upper) ==
    IF wire_arr_list = <<>>
    THEN [result |-> "ok", ret |-> <<>>, rects |-> <<>>, tracked |-> <<>>]
    ELSE LET layer_id == wire_arr_list[1].track_id.layer_id
             m == MergeWires(track_pitch, layer_id, <<>>, wire_arr_list,
                             lower, upper)
             new_warr_list == GroupWires(track_pitch, layer_id, m.intv_set, NoRun)
         IN  IF m.result = "raise"
             THEN [result |-> "raise", error |-> m.error, rects |-> <<>>,
                   tracked |-> <<>>]
             ELSE [result |-> "ok", ret |-> new_warr_list,
                   rects |-> WireRects(track_pitch, new_warr_list),
                   tracked |-> new_warr_list]

\* wires handed to connect_wires: single wires on every track and half
\* track of layer 1 with two ranges, wide wires, arrays of two wires, and
\* wires of layer 2
RangeInputs == {<<0, 4>>, <<2, 6>>}
WireArrInputs ==
    {TrackWires(TrackID(1, h, 1, 1, 0), r[1], r[2]) :
        h \in 0..MaxHalfTrack, r \in RangeInputs}
    \cup {TrackWires(TrackID(1, h, 2, 1, 0), 0, 4) : h \in {0, 2, 4}}
    \cup {TrackWires(TrackID(1, h, 1, 2, 2), 0, 4) : h \in {0, 2}}
    \cup {TrackWires(TrackID(2, h, 1, 1, 0), 0, 4) : h \in {0, 2}}
TrackPitchInputs == {4, 6}
ExtendInputs == {<<None, None>>, <<Some(1), Some(5)>>}

InitWires ==
    /\ InitDb
    /\ name_prefix = <<>>
    /\ id_in = <<>>
    /\ id_out = <<>>
    /\ name_in = None
    /\ name_out = None
    /\ \E n \in 0..MaxWireList :
       \E ws \in [1..n -> WireArrInputs] :
       \E tp \in TrackPitchInputs :
       \E e \in ExtendInputs :
          wires_in = Some([track_pitch |-> tp, wire_arr_list |-> ws,
                           lower |-> e[1], upper |-> e[2]])
    /\ wires_out = None
    /\ threads = <<>>

\* template.connect_wires(wire_arr_list, lower=lower, upper=upper)
ConnectWires ==
    /\ wires_in # None
    /\ wires_out = None
    /\ LET a == TheValue(wires_in)
       IN  wires_out' = Some(connect_wires(a.track_pitch, a.wire_arr_list,
                                           a.lower, a.upper))
    /\ UNCHANGED <<dbvars, layout, id_in, id_out, name_in, name_out, wires_in, threads,
                   name_prefix>>

NextWires == ConnectWires

SpecWires == InitWires /\ [][NextWires]_vars

(***************************************************************************)
(* Claims about connect_wires.                                             *)
(***************************************************************************)
WiresIn == TheValue(wires_in).wire_arr_list
WiresOut == TheValue(wires_out)
Called == wires_in # None /\ wires_out # None

\* the wires are single wires of one layer, width and range on distinct
\* tracks, no two of them overlapping
SingleWires(ws) ==
    /\ \A k \in 1..Len(ws) :
          /\ ws[k].track_id.num = 1
          /\ ws[k].track_id.layer_id = ws[1].track_id.layer_id
          /\ ws[k].track_id.width = ws[1].track_id.width
          /\ ws[k].lower = ws[1].lower
          /\ ws[k].upper = ws[1].upper
    /\ \A j, k \in 1..Len(ws) :
          j # k => \/ ws[j].track_id.base_index
                        >= ws[k].track_id.base_index + 2 * ws[k].track_id.width
                   \/ ws[k].track_id.base_index
                        >= ws[j].track_id.base_index + 2 * ws[j].track_id.width

TracksOf(ws) == {ws[k].track_id.base_index : k \in 1..Len(ws)}

\* the tracks in increasing order
RECURSIVE SortedTracks(_)
SortedTracks(H) ==
    IF H = {} THEN <<>>
    ELSE LET h == CHOOSE x \in H : \A y \in H : x <= y
         IN  <<h>> \o SortedTracks(H \ {h})

\* the distances between neighbouring tracks, in order
Spacings(ws) ==
    LET t == SortedTracks(TracksOf(ws))
    IN  [k \in 1..(Len(t) - 1) |-> t[k + 1] - t[k]]

EquallySpaced(ws) ==
    \A j, k \in 1..(Len(ws) - 1) : Spacings(ws)[j] = Spacings(ws)[k]

\* C16: k >= 1 single wires of one lower, upper and width that are
\* equally spaced come back as exactly one WireArray with num = k,
\* whatever the track pitch of the layer
C16_EqualSpacingOneArray ==
    (Called /\ WiresIn # <<>> /\ SingleWires(WiresIn) /\ EquallySpaced(WiresIn))
        => /\ WiresOut.result = "ok"
           /\ Len(WiresOut.ret) = 1
           /\ WiresOut.ret[1].track_id.num = Len(WiresIn)

\* at least three wires, no two neighbouring distances the same
UnequallySpaced(ws) ==
    /\ Len(ws) >= 3
    /\ \A k \in 1..(Len(ws) - 2) : Spacings(ws)[k] # Spacings(ws)[k + 1]

RECURSIVE NumSum(_)
NumSum(warrs) ==
    IF warrs = <<>> THEN 0
    ELSE Head(warrs).track_id.num + NumSum(Tail(warrs))

\* C17 as stated: k wires of one length and width whose consecutive
\* track spacings are unequal come back as k WireArrays with num = 1
C17_UnequalSpacingSingletons ==
    (Called /\ SingleWires(WiresIn) /\ UnequallySpaced(WiresIn))
        => /\ WiresOut.result = "ok"
           /\ Len(WiresOut.ret) = Len(WiresIn)
           /\ \A k \in 1..Len(WiresOut.ret) : WiresOut.ret[k].track_id.num = 1

\* C17 as the code has it: the two wires on the lowest tracks are always
\* merged, so fewer than k WireArrays come back, the first with num >= 2,
\* and their num values add up to k
C17_FirstTwoWiresMerged ==
    (Called /\ SingleWires(WiresIn) /\ UnequallySpaced(WiresIn))
        => /\ WiresOut.result = "ok"
           /\ Len(WiresOut.ret) < Len(WiresIn)
           /\ WiresOut.ret[1].track_id.num >= 2
           /\ WiresOut.ret[1].track_id.base_index
                  = SortedTracks(TracksOf(WiresIn))[1]
           /\ NumSum(WiresOut.ret) = Len(WiresIn)

C17_Witness ==
    /\ Called /\ SingleWires(WiresIn) /\ UnequallySpaced(WiresIn)
    /\ WiresOut.result = "ok"
    /\ Len(WiresOut.ret) = 2
    /\ WiresOut.ret[1].track_id.num = 2
    /\ WiresOut.ret[2].track_id.num = 1

\* the two wires lie p whole tracks apart
WholeTracksApart(ws, p) ==
    /\ Len(ws) = 2
    /\ p >= 1
    /\ Spacings(ws)[1] = 2 * p

\* C18: two non-overlapping wires of one width, lower and upper whose
\* tracks lie p whole track pitches apart, connected with no lower or
\* upper, come back as one WireArray with num = 2 and a pitch of p tracks
C18_TwoWiresPitch ==
    \A p \in 1..MaxHalfTrack :
        (/\ Called
         /\ TheValue(wires_in).lower = None
         /\ TheValue(wires_in).upper = None
         /\ SingleWires(WiresIn)
         /\ WholeTracksApart(WiresIn, p))
            => /\ WiresOut.result = "ok"
               /\ Len(WiresOut.ret) = 1
               /\ WiresOut.ret[1].track_id.num = 2
               /\ WiresOut.ret[1].track_id.pitch = 2 * p
               /\ WiresOut.ret[1].track_id.base_index
                      = SortedTracks(TracksOf(WiresIn))[1]

\* the example of the specification: tracks 0 and 2
C18_Witness ==
    /\ Called
    /\ TheValue(wires_in).lower = None
    /\ TheValue(wires_in).upper = None
    /\ SingleWires(WiresIn)
    /\ WholeTracksApart(WiresIn, 2)
    /\ TheValue(wires_in).track_pitch = 6
    /\ WiresOut.result = "ok"
    /\ WiresOut.ret[1].track_id.pitch = 4

\* the footprints of a wire array across the routing direction
Footprints(warr) ==
    LET b == BoxIntervals(TheValue(wires_in).track_pitch, warr)
    IN  {b[k] : k \in 1..Len(b)}

\* two wires of one layer with footprints that overlap and differ
Colliding(w1, w2) ==
    /\ w1.track_id.layer_id = w2.track_id.layer_id
    /\ \E a \in Footprints(w1), b \in Footprints(w2) :
          IntvOverlap(a, b) /\ a # b

SomeColliding(ws) ==
    \E j, k \in 1..Len(ws) : j # k /\ Colliding(ws[j], ws[k])

OneLayer(ws) ==
    \A k \in 1..Len(ws) : ws[k].track_id.layer_id = ws[1].track_id.layer_id

\* C19: the call raises whenever two input wires of one layer have
\* footprints that overlap without being identical, in every input order,
\* and wires of one layer without such a pair are accepted, those with
\* identical footprints included
C19_OverlappingWiresRejected ==
    Called =>
        /\ SomeColliding(WiresIn) => WiresOut.result = "raise"
        /\ (OneLayer(WiresIn) /\ SomeColliding(WiresIn))
               => WiresOut.error = "overlap"
        /\ (OneLayer(WiresIn) /\ ~SomeColliding(WiresIn))
               => WiresOut.result = "ok"

\* the colliding wire comes last, after a wire it collides with and a
\* wire on a higher track it does not touch
C19_Witness ==
    /\ Called
    /\ Len(WiresIn) = 3
    /\ OneLayer(WiresIn)
    /\ Colliding(WiresIn[1], WiresIn[3])
    /\ ~Colliding(WiresIn[2], WiresIn[3])
    /\ ~Colliding(WiresIn[1], WiresIn[2])
    /\ WiresIn[2].track_id.base_index > WiresIn[3].track_id.base_index
    /\ WiresOut.result = "raise"
    /\ WiresOut.error = "overlap"

\* two wires with the same footprint and different ranges are merged
C19_IdenticalAccepted ==
    /\ Called
    /\ Len(WiresIn) = 2
    /\ OneLayer(WiresIn)
    /\ Footprints(WiresIn[1]) = Footprints(WiresIn[2])
    /\ WiresIn[1].lower # WiresIn[2].lower
    /\ WiresOut.result = "ok"
    /\ Len(WiresOut.ret) = 1

\* C20: the call raises whenever the list, not empty, holds wires of more
\* than one layer, wherever the wire of the other layer stands; the error
\* is the one about the layer unless an overlap was met before it
C20_MixedLayersRejected ==
    (Called /\ WiresIn # <<>> /\ ~OneLayer(WiresIn))
        => /\ WiresOut.result = "raise"
           /\ ~SomeColliding(WiresIn) => WiresOut.error = "layer"

\* the wire of the other layer is the last of three
C20_Witness ==
    /\ Called
    /\ Len(WiresIn) = 3
    /\ OneLayer(SubSeq(WiresIn, 1, 2))
    /\ WiresIn[3].track_id.layer_id # WiresIn[1].track_id.layer_id
    /\ ~SomeColliding(WiresIn)
    /\ WiresOut.result = "raise"
    /\ WiresOut.error = "layer"

(***************************************************************************)
(* TemplateBase.connect_to_tracks and _draw_via_on_track.  The layers      *)
(* alternate in direction: the wires of the layers next to the track       *)
(* layer run across the tracks.  A via is a collaborator: its box on a     *)
(* layer is the crossing of wire and track, enlarged along the direction   *)
(* of that layer by the enclosure the technology reports for it.           *)
(***************************************************************************)
\* TrackID.get_bounds: from the lower edge of the first track to the
\* upper edge of the last one
get_bounds(track_pitch, track_id) ==
    <<TrackInterval(track_pitch, track_id.base_index, track_id.width)[1],
      TrackInterval(track_pitch,
                    track_id.base_index + (track_id.num - 1) * track_id.pitch,
                    track_id.width)[2]>>

\* the box on the track layer of the via add_via makes where a wire array
\* crosses the tracks: its extent along the tracks, for the first wire
ViaTrackBox(track_pitch, enc, box_arr) ==
    <<TrackInterval(track_pitch, box_arr.track_id.base_index,
                    box_arr.track_id.width)[1] - enc,
      TrackInterval(track_pitch, box_arr.track_id.base_index,
                    box_arr.track_id.width)[2] + enc>>

\* the distance from the first wire of a wire array to its last one:
\* (nx - 1) * box_arr.spx_unit
ArraySpan(track_pitch, box_arr) ==
    (box_arr.track_id.num - 1)
        * ((box_arr.track_id.pitch * track_pitch) \div 2)

\* a variant that looks at the via of the first wire of the array only
draw_via_on_track_first(track_pitch, enc, box_arr, track_id, tl_unit, tu_unit) ==
    LET vtbox == ViaTrackBox(track_pitch, enc, box_arr)
    IN  [via |-> [wire |-> box_arr.track_id, track |-> track_id,
                  vtbox |-> vtbox],
         tl_unit |-> IF tl_unit = None THEN Some(vtbox[1])
                     ELSE Some(Min2(TheValue(tl_unit), vtbox[1])),
         tu_unit |-> IF tu_unit = None THEN Some(vtbox[2])
                     ELSE Some(Max2(TheValue(tu_unit), vtbox[2]))]

\* TemplateBase._draw_via_on_track for one wire array: the via added and
\* the range of the tracks widened to hold it
draw_via_on_track(track_pitch, enc, box_arr, track_id, tl_unit, tu_unit) ==
    LET vtbox == ViaTrackBox(track_pitch, enc, box_arr)
        hi == vtbox[2] + ArraySpan(track_pitch, box_arr)
    IN  [via |-> [wire |-> box_arr.track_id, track |-> track_id,
                  vtbox |-> vtbox],
         tl_unit |-> IF tl_unit = None THEN Some(vtbox[1])
                     ELSE Some(Min2(TheValue(tl_unit), vtbox[1])),
         tu_unit |-> IF tu_unit = None THEN Some(hi)
                     ELSE Some(Max2(TheValue(tu_unit), hi))]

\* the loop "draw vias" of connect_to_tracks over the wire arrays
RECURSIVE DrawVias(_, _, _, _, _)
DrawVias(track_pitch, enc, wire_list, track_id, acc) ==
    IF wire_list = <<>> THEN acc
    ELSE LET d == draw_via_on_track(track_pitch, enc, Head(wire_list),
                                    track_id, acc.track_lower, acc.track_upper)
         IN  DrawVias(track_pitch, enc, Tail(wire_list), track_id,
                      [vias |-> Append(acc.vias, d.via),
                       track_lower |-> d.tl_unit, track_upper |-> d.tu_unit])

\* a variant that takes every layer but the one of the tracks
NotAdjacent_same(cur_layer_id, tr_layer_id) == cur_layer_id = tr_layer_id

\* the else branch of the loop over wire_arr_list
NotAdjacent(cur_layer_id, tr_layer_id) ==
    cur_layer_id # tr_layer_id + 1 /\ cur_layer_id # tr_layer_id - 1

\* TemplateBase.connect_to_tracks(wire_arr_list, track_id, ...,
\* unit_mode=True); enc is the via enclosure on the track layer
connect_to_tracks(track_pitch, enc, wire_arr_list, track_id, wire_lower, wire_upper, track_lower, track_upper) ==
    LET tr_layer_id == track_id.layer_id
        b == get_bounds(track_pitch, track_id)
        wl == IF wire_lower = None THEN b[1]
              ELSE Min2(TheValue(wire_lower), b[1])
        wu == IF wire_upper = None THEN b[2]
              ELSE Max2(TheValue(wire_upper), b[2])
        top_list == SelectSeq(wire_arr_list,
                        LAMBDA w : w.track_id.layer_id = tr_layer_id + 1)
        bot_list == SelectSeq(wire_arr_list,
                        LAMBDA w : w.track_id.layer_id = tr_layer_id - 1)
        top == connect_wires(track_pitch, top_list, Some(wl), Some(wu))
        bot == connect_wires(track_pitch, bot_list, Some(wl), Some(wu))
        v == DrawVias(track_pitch, enc, top.ret \o bot.ret, track_id,
                      [vias |-> <<>>, track_lower |-> track_lower,
                       track_upper |-> track_upper])
        result == TrackWires(track_id, TheValue(v.track_lower),
                             TheValue(v.track_upper))
    IN  IF wire_arr_list = <<>>
        THEN [result |-> "ok", ret |-> None, rects |-> <<>>, vias |-> <<>>,
              tracked |-> <<>>]
        ELSE IF \E k \in 1..Len(wire_arr_list) :
                   NotAdjacent(wire_arr_list[k].track_id.layer_id, tr_layer_id)
        THEN [result |-> "raise", error |-> "layer",
              rects |-> <<>>, vias |-> <<>>, tracked |-> <<>>]
        ELSE IF top.result = "raise"
        THEN [result |-> "raise", error |-> top.error,
              rects |-> <<>>, vias |-> <<>>, tracked |-> <<>>]
        ELSE IF bot.result = "raise"
        THEN [result |-> "raise", error |-> bot.error,
              rects |-> top.rects, vias |-> <<>>, tracked |-> top.tracked]
        ELSE IF v.track_lower = None \/ v.track_upper = None
        THEN \* track_lower * res with track_lower None: a TypeError
             [result |-> "raise", error |-> "type",
              rects |-> top.rects \o bot.rects, vias |-> v.vias,
              tracked |-> top.tracked \o bot.tracked]
        ELSE [result |-> "ok", ret |-> Some(result),
              rects |-> top.rects \o bot.rects
                            \o WireRects(track_pitch, <<result>>),
              vias |-> v.vias,
              tracked |-> top.tracked \o bot.tracked \o <<result>>]

\* inputs: tracks of layer 2, wires of the layers 1 and 3 next to it, and
\* wires of the layers 2 and 4
TrackIdInputs ==
    {TrackID(2, h, 1, n, 2) : h \in {0, 2}, n \in 1..2}
TrackWireInputs ==
    {TrackWires(TrackID(1, h, 1, 1, 0), 0, 4) : h \in {0, 2, 4}}
    \cup {TrackWires(TrackID(1, 0, 2, 1, 0), 0, 4),
          TrackWires(TrackID(1, 1, 1, 2, 4), 2, 6)}
    \cup {TrackWires(TrackID(l, h, 1, 1, 0), 0, 4) :
             l \in {3}, h \in {0, 2}}
    \cup {TrackWires(TrackID(l, 0, 1, 1, 0), 0, 4) : l \in {2, 4}}
EncInputs == {0, 1}
BoundInputs == {<<None, None>>, <<Some(0), Some(20)>>}

InitTracks ==
    /\ InitDb
    /\ name_prefix = <<>>
    /\ id_in = <<>>
    /\ id_out = <<>>
    /\ name_in = None
    /\ name_out = None
    /\ \E n \in 0..MaxWireList :
       \E ws \in [1..n -> TrackWireInputs] :
       \E tp \in TrackPitchInputs :
       \E enc \in EncInputs :
       \E tid \in TrackIdInputs :
       \E wb \in BoundInputs :
       \E tb \in BoundInputs :
          wires_in = Some([track_pitch |-> tp, enc |-> enc,
                           wire_arr_list |-> ws, track_id |-> tid,
                           wire_lower |-> wb[1], wire_upper |-> wb[2],
                           track_lower |-> tb[1], track_upper |-> tb[2]])
    /\ wires_out = None
    /\ threads = <<>>

\* template.connect_to_tracks(wire_arr_list, track_id, ...)
ConnectToTracks ==
    /\ wires_in # None
    /\ wires_out = None
    /\ LET a == TheValue(wires_in)
       IN  wires_out' = Some(connect_to_tracks(a.track_pitch, a.enc,
                                a.wire_arr_list, a.track_id,
                                a.wire_lower, a.wire_upper,
                                a.track_lower, a.track_upper))
    /\ UNCHANGED <<dbvars, layout, id_in, id_out, name_in, name_out, wires_in, threads,
                   name_prefix>>

NextTracks == ConnectToTracks

SpecTracks == InitTracks /\ [][NextTracks]_vars

\* C21: connect_to_tracks raises whenever a wire of the list is on a
\* layer other than the one above or the one below the layer of the
\* tracks, and nothing, wire, via or track, has been added by then
OffLayerWire ==
    \E k \in 1..Len(WiresIn) :
        LET d == WiresIn[k].track_id.layer_id
                     - TheValue(wires_in).track_id.layer_id
        IN  d # 1 /\ d # -1

C21_NonAdjacentLayerRejected ==
    (Called /\ OffLayerWire)
        => /\ WiresOut.result = "raise"
           /\ WiresOut.error = "layer"
           /\ WiresOut.rects = <<>>
           /\ WiresOut.vias = <<>>

\* the wire two layers away comes after two wires that can be connected
C21_Witness ==
    /\ Called
    /\ Len(WiresIn) = 3
    /\ WiresIn[1].track_id.layer_id = 1
    /\ WiresIn[2].track_id.layer_id = 3
    /\ WiresIn[3].track_id.layer_id = 4
    /\ WiresOut.result = "raise"
    /\ WiresOut.rects = <<>>

\* a call that connects wires of both neighbouring layers
C21_Connected ==
    /\ Called
    /\ WiresOut.result = "ok"
    /\ Len(WiresOut.vias) = 2
    /\ \E k \in 1..Len(WiresIn) : WiresIn[k].track_id.layer_id = 3

(***************************************************************************)
(* TemplateBase.connect_differential_tracks.                               *)
(***************************************************************************)
\* the loop over chain(pwarr_list, nwarr_list): the first wire that is
\* refused, or the range of the tracks of all the wires
RECURSIVE DiffBounds(_, _, _, _, _)
DiffBounds(track_pitch, warrs, w_lay_id, w_width, acc) ==
    IF warrs = <<>> THEN [result |-> "ok", bounds |-> acc]
    ELSE LET warr_tid == Head(warrs).track_id
             b == get_bounds(track_pitch, warr_tid)
         IN  IF warr_tid.layer_id # w_lay_id
             THEN [result |-> "raise", error |-> "layer"]
             ELSE IF warr_tid.width # w_width
             THEN [result |-> "raise", error |-> "width"]
             ELSE DiffBounds(track_pitch, Tail(warrs), w_lay_id, w_width,
                     IF acc = None THEN Some(b)
                     ELSE Some(<<Min2(TheValue(acc)[1], b[1]),
                                 Max2(TheValue(acc)[2], b[2])>>))

\* the test via: the size, along the direction of a layer, of its box on
\* that layer when the wire crossing that direction is w wide
TestViaBox(w, enc) == w + 2 * enc

\* "calculate extension": (box size - width) // 2
ViaExt(box, w) == (box - w) \div 2

\* a variant that looks at the positive wires only
DiffWires_pos(pwarr_list, nwarr_list) == pwarr_list

\* chain(pwarr_list, nwarr_list)
DiffWires(pwarr_list, nwarr_list) == pwarr_list \o nwarr_list

\* a variant that answers with the positive track on both sides
DiffAnswer_same(pans, nans, call) ==
    IF pans.result = "raise"
    THEN [result |-> "raise", error |-> pans.error,
          rects |-> pans.rects, vias |-> pans.vias, calls |-> <<call>>]
    ELSE IF nans.result = "raise"
    THEN [result |-> "raise", error |-> nans.error,
          rects |-> pans.rects \o nans.rects,
          vias |-> pans.vias \o nans.vias, calls |-> <<call, call>>]
    ELSE [result |-> "ok", ret |-> <<pans.ret, pans.ret>>,
          rects |-> pans.rects \o nans.rects,
          vias |-> pans.vias \o nans.vias, calls |-> <<call, call>>]

\* what the two connect_to_tracks calls leave: the first one that raises
\* ends the method, with what was drawn until then
DiffAnswer(pans, nans, call) ==
    IF pans.result = "raise"
    THEN [result |-> "raise", error |-> pans.error,
          rects |-> pans.rects, vias |-> pans.vias, calls |-> <<call>>]
    ELSE IF nans.result = "raise"
    THEN [result |-> "raise", error |-> nans.error,
          rects |-> pans.rects \o nans.rects,
          vias |-> pans.vias \o nans.vias, calls |-> <<call, call>>]
    ELSE [result |-> "ok", ret |-> <<pans.ret, nans.ret>>,
          rects |-> pans.rects \o nans.rects,
          vias |-> pans.vias \o nans.vias, calls |-> <<call, call>>]

\* the calls connect_to_tracks(pwarr_list, pos_tid, ...) and
\* connect_to_tracks(nwarr_list, neg_tid, ...), with the same wire and
\* track bounds
DiffConnect(track_pitch, enc, pwarr_list, nwarr_list, pos_tid, neg_tid, w_lower, w_upper, tr) ==
    DiffAnswer(
        connect_to_tracks(track_pitch, enc, pwarr_list, pos_tid,
            Some(w_lower), Some(w_upper), Some(tr[1]), Some(tr[2])),
        connect_to_tracks(track_pitch, enc, nwarr_list, neg_tid,
            Some(w_lower), Some(w_upper), Some(tr[1]), Some(tr[2])),
        [wire_lower |-> w_lower, wire_upper |-> w_upper,
         track_lower |-> tr[1], track_upper |-> tr[2]])

\* TemplateBase.connect_differential_tracks(pwarr_list, nwarr_list,
\* tr_layer_id, ptr_idx, ntr_idx, width=..., unit_mode=True)
connect_differential_tracks(track_pitch, enc, pwarr_list, nwarr_list, tr_layer_id, ptr_idx, ntr_idx, width, track_lower, track_upper) ==
    LET w_lay_id == pwarr_list[1].track_id.layer_id
        w_width == pwarr_list[1].track_id.width
        chk == DiffBounds(track_pitch, DiffWires(pwarr_list, nwarr_list),
                          w_lay_id, w_width, None)
        pos_tid == TrackID(tr_layer_id, ptr_idx, width, 1, 0)
        neg_tid == TrackID(tr_layer_id, ntr_idx, width, 1, 0)
        pos == get_bounds(track_pitch, pos_tid)
        neg == get_bounds(track_pitch, neg_tid)
        tr_width == pos[2] - pos[1]
        ww == WireWidth(w_width)
        t_ext == ViaExt(TestViaBox(ww, enc), ww)
        w_ext == ViaExt(TestViaBox(tr_width, enc), tr_width)
        w_lower == Min2(pos[1], neg[1]) - w_ext
        w_upper == Max2(pos[2], neg[2]) + w_ext
        tr0 == <<TheValue(chk.bounds)[1] - t_ext,
                 TheValue(chk.bounds)[2] + t_ext>>
        tr == <<IF track_lower = None THEN tr0[1]
                ELSE Min2(tr0[1], TheValue(track_lower)),
                IF track_upper = None THEN tr0[2]
                ELSE Max2(tr0[2], TheValue(track_upper))>>
    IN  IF pwarr_list = <<>>
        THEN [result |-> "ok", ret |-> <<None, None>>, rects |-> <<>>,
              vias |-> <<>>, calls |-> <<>>]
        ELSE IF NotAdjacent(w_lay_id, tr_layer_id)
        THEN [result |-> "raise", error |-> "layer", rects |-> <<>>,
              vias |-> <<>>, calls |-> <<>>]
        ELSE IF chk.result = "raise"
        THEN [result |-> "raise", error |-> chk.error, rects |-> <<>>,
              vias |-> <<>>, calls |-> <<>>]
        ELSE DiffConnect(track_pitch, enc, pwarr_list, nwarr_list,
                         pos_tid, neg_tid, w_lower, w_upper, tr)

\* inputs: positive and negative wires of layer 1 for tracks of layer 2,
\* among them a wide wire, a wire of layer 3 and a wire of layer 4
PosWireInputs ==
    {TrackWires(TrackID(1, h, 1, 1, 0), 0, 4) : h \in 0..MaxHalfTrack}
    \cup {TrackWires(TrackID(1, 0, 2, 1, 0), 0, 4),
          TrackWires(TrackID(3, 0, 1, 1, 0), 0, 4),
          TrackWires(TrackID(4, 0, 1, 1, 0), 0, 4)}
NegWireInputs ==
    {TrackWires(TrackID(1, h, 1, 1, 0), 0, 4) : h \in {1, 3}}
    \cup {TrackWires(TrackID(1, 2, 2, 1, 0), 0, 4),
          TrackWires(TrackID(3, 2, 1, 1, 0), 0, 4)}
MaxNegList == 2

InitDiff ==
    /\ InitDb
    /\ name_prefix = <<>>
    /\ id_in = <<>>
    /\ id_out = <<>>
    /\ name_in = None
    /\ name_out = None
    /\ \E n \in 0..MaxWireList, m \in 0..MaxNegList :
       \E pws \in [1..n -> PosWireInputs] :
       \E nws \in [1..m -> NegWireInputs] :
       \E tp \in TrackPitchInputs :
       \E enc \in EncInputs :
       \E tb \in BoundInputs :
          wires_in = Some([track_pitch |-> tp, enc |-> enc,
                           pwarr_list |-> pws, nwarr_list |-> nws,
                           tr_layer_id |-> 2, ptr_idx |-> 0, ntr_idx |-> 2,
                           width |-> 1,
                           track_lower |-> tb[1], track_upper |-> tb[2]])
    /\ wires_out = None
    /\ threads = <<>>

\* template.connect_differential_tracks(pwarr_list, nwarr_list, ...)
ConnectDifferentialTracks ==
    /\ wires_in # None
    /\ wires_out = None
    /\ LET a == TheValue(wires_in)
       IN  wires_out' = Some(connect_differential_tracks(a.track_pitch, a.enc,
                                a.pwarr_list, a.nwarr_list, a.tr_layer_id,
                                a.ptr_idx, a.ntr_idx, a.width,
                                a.track_lower, a.track_upper))
    /\ UNCHANGED <<dbvars, layout, id_in, id_out, name_in, name_out, wires_in, threads,
                   name_prefix>>

NextDiff == ConnectDifferentialTracks

SpecDiff == InitDiff /\ [][NextDiff]_vars

DiffIn == TheValue(wires_in)

\* a call that returned, made with wires in both groups
DiffDone ==
    /\ Called
    /\ DiffIn.pwarr_list # <<>>
    /\ DiffIn.nwarr_list # <<>>
    /\ WiresOut.result = "ok"

\* C22: in every successful call with wires in both groups the two
\* connect_to_tracks calls get the same wire bounds and the same track
\* bounds, and the two wire arrays returned have the same lower and the
\* same upper, whatever the via enclosure
C22_DifferentialSpansEqual ==
    DiffDone
        => /\ WiresOut.calls[1] = WiresOut.calls[2]
           /\ TheValue(WiresOut.ret[1]).lower = TheValue(WiresOut.ret[2]).lower
           /\ TheValue(WiresOut.ret[1]).upper = TheValue(WiresOut.ret[2]).upper

\* the layer of the first positive wire is not next to the track layer,
\* or a wire of either group differs from that wire in layer or width
DiffMismatch ==
    LET first == DiffIn.pwarr_list[1].track_id
        all == DiffIn.pwarr_list \o DiffIn.nwarr_list
    IN  \/ first.layer_id - DiffIn.tr_layer_id \notin {1, -1}
        \/ \E k \in 1..Len(all) :
              \/ all[k].track_id.layer_id # first.layer_id
              \/ all[k].track_id.width # first.width

\* C23: connect_differential_tracks raises, with no via and no rectangle
\* added, whenever the layer of the wires is not next to the track layer
\* or a wire of the positive or the negative group has another layer or
\* another width than the first positive wire
C23_DifferentialMismatchRejected ==
    (Called /\ DiffIn.pwarr_list # <<>> /\ DiffMismatch)
        => /\ WiresOut.result = "raise"
           /\ WiresOut.error \in {"layer", "width"}
           /\ WiresOut.rects = <<>>
           /\ WiresOut.vias = <<>>
           /\ WiresOut.calls = <<>>

\* the wide wire is the last of the negative group
C23_Witness ==
    /\ Called
    /\ Len(DiffIn.pwarr_list) = 2
    /\ Len(DiffIn.nwarr_list) = 2
    /\ \A k \in 1..2 : DiffIn.pwarr_list[k].track_id.layer_id = 1
                         /\ DiffIn.pwarr_list[k].track_id.width = 1
    /\ DiffIn.nwarr_list[1].track_id.width = 1
    /\ DiffIn.nwarr_list[1].track_id.layer_id = 1
    /\ DiffIn.nwarr_list[2].track_id.width = 2
    /\ WiresOut.result = "raise"
    /\ WiresOut.error = "width"
    /\ WiresOut.rects = <<>>

(***************************************************************************)
(* TemplateBase.set_size_from_array_box.  An array box is (left, bottom,   *)
(* width, height) in resolution units.  The block pitches and the          *)
(* directions of the layers come from the routing grid.                    *)
(***************************************************************************)
\* RoutingGrid.get_block_pitch(layer_id, unit_mode=True)
get_block_pitch(layer_id) == layer_id + 1

\* RoutingGrid.get_direction: the layers alternate
get_direction(layer_id) == IF layer_id % 2 = 1 THEN "x" ELSE "y"

\* a variant that forgets to swap the pitches of a vertical top layer
BlockPitches_noswap(top_layer_id) ==
    [h_pitch |-> get_block_pitch(top_layer_id),
     w_pitch |-> get_block_pitch(top_layer_id - 1)]

\* h_pitch and w_pitch as the method computes them
BlockPitches(top_layer_id) ==
    IF get_direction(top_layer_id) = "y"
    THEN [h_pitch |-> get_block_pitch(top_layer_id - 1),
          w_pitch |-> get_block_pitch(top_layer_id)]
    ELSE [h_pitch |-> get_block_pitch(top_layer_id),
          w_pitch |-> get_block_pitch(top_layer_id - 1)]

\* TemplateBase.set_size_from_array_box(top_layer_id); without an array
\* box the attribute access on None raises
set_size_from_array_box(t, top_layer_id) ==
    LET bp == BlockPitches(top_layer_id)
        box == TheValue(t.array_box)
        dx == box[1]
        dy == box[2]
        w_blk == 2 * dx + box[3]
        h_blk == 2 * dy + box[4]
        wq == w_blk \div bp.w_pitch
        wr == w_blk % bp.w_pitch
        hq == h_blk \div bp.h_pitch
        hr == h_blk % bp.h_pitch
    IN  IF t.array_box = None THEN [obj |-> t, result |-> "raise"]
        ELSE IF dx < 0 \/ dy < 0 THEN [obj |-> t, result |-> "raise"]
        ELSE IF wr # 0 THEN [obj |-> t, result |-> "raise"]
        ELSE IF hr # 0 THEN [obj |-> t, result |-> "raise"]
        ELSE size_setter(t, <<top_layer_id, wq, hq>>)

\* template.set_size_from_array_box(top_layer_id)
SetSizeFromArrayBox(t, top_layer_id) ==
    Assign("set_size_from_array_box", t,
           set_size_from_array_box(objs[t], top_layer_id),
           <<"top_layer_id", top_layer_id>>)

\* array boxes: aligned for the top layers 2 and 3, off the origin,
\* misaligned in width, misaligned in height for the top layer 3, and
\* with a negative left or bottom
SizeBoxInputs ==
    {<<0, 0, 6, 4>>, <<1, 0, 4, 4>>, <<0, 0, 4, 4>>, <<0, 0, 6, 2>>,
     <<-1, 0, 8, 4>>, <<0, -1, 6, 6>>}
TopLayerInputs == {2, 3}

NextSize ==
    \/ NewTemplateDraw(ClsX, ParamN(PyInt(1)), NoGrid)
    \/ NewTemplateCached(ClsX, ParamN(PyInt(1)), NoGrid)
    \/ \E t \in 1..Len(objs), new_array_box \in SizeBoxInputs :
          SetArrayBox(t, new_array_box)
    \/ \E t \in 1..Len(objs), top_layer_id \in TopLayerInputs :
          SetSizeFromArrayBox(t, top_layer_id)
    \/ Propagate
    \/ NewTemplateReturn

SpecSize == Init /\ [][NextSize]_vars

\* the block pitch along x or y for a top layer: that of the layer, among
\* the top layer and the one below, whose wires run the other way
PitchAlong(top_layer_id, axis) ==
    IF get_direction(top_layer_id) # axis
    THEN get_block_pitch(top_layer_id)
    ELSE get_block_pitch(top_layer_id - 1)

\* a step of set_size_from_array_box on a template with an array box
SizeStep ==
    /\ last' # last
    /\ last'.op = "set_size_from_array_box"
    /\ objs[last'.obj].array_box # None

\* what the claim says of such a step
SizeFromBox(t, top) ==
    LET box == TheValue(objs[t].array_box)
        w_blk == 2 * box[1] + box[3]
        h_blk == 2 * box[2] + box[4]
        w_pitch == PitchAlong(top, "x")
        h_pitch == PitchAlong(top, "y")
        fits == /\ box[1] >= 0 /\ box[2] >= 0
                /\ \E q \in 0..w_blk : q * w_pitch = w_blk
                /\ \E q \in 0..h_blk : q * h_pitch = h_blk
    IN  IF fits
        THEN /\ last'.result = "ok"
             /\ objs'[t].size # None
             /\ TheValue(objs'[t].size)[1] = top
             /\ TheValue(objs'[t].size)[2] * w_pitch = w_blk
             /\ TheValue(objs'[t].size)[3] * h_pitch = h_blk
             /\ objs' = [objs EXCEPT ![t].size = objs'[t].size]
        ELSE /\ last'.result = "raise"
             /\ objs' = objs

\* C24 as stated: the call raises and leaves size alone when left or
\* bottom is negative or 2*left + width, 2*bottom + height is not a
\* multiple of the block pitch of its direction; otherwise it sets size
\* to (top_layer, (2*left + width) / w_pitch, (2*bottom + height) / h_pitch)
C24_SizeFromArrayBox ==
    [][SizeStep => SizeFromBox(last'.obj, last'.arg[2])]_vars

\* C24 as the code has it: so on a template that is not finalized; on a
\* finalized one the call raises whatever the array box, size unchanged
C24_SizeFromArrayBoxUnlessFinalized ==
    [][SizeStep =>
          IF objs[last'.obj].finalized
          THEN last'.result = "raise" /\ objs' = objs
          ELSE SizeFromBox(last'.obj, last'.arg[2])]_vars

\* the size computed for the top layer 2 from the box off the origin
C24_Witness ==
    /\ last.op = "set_size_from_array_box"
    /\ last.result = "ok"
    /\ last.arg = <<"top_layer_id", 2>>
    /\ objs[last.obj].array_box = Some(<<1, 0, 4, 4>>)
    /\ objs[last.obj].size = Some(<<2, 2, 2>>)

\* a refused call: the height does not fit the top layer 3
C24_Refused ==
    /\ last.op = "set_size_from_array_box"
    /\ last.result = "raise"
    /\ last.arg = <<"top_layer_id", 3>>
    /\ objs[last.obj].array_box = Some(<<0, 0, 6, 2>>)
    /\ ~objs[last.obj].finalized

(***************************************************************************)
(* TemplateDB.new_template called from two threads.  The method takes no   *)
(* lock, so the threads may be switched between any two of its lines; a    *)
(* call is split into the constructor (line 187), the cache check (190),   *)
(* draw_layout (198), finalize (199), the cache insertion (201) and the    *)
(* addition of the cell name (202).  The callbacks drawn here make no      *)
(* nested calls.                                                           *)
(***************************************************************************)
NumThreads == 2

Request(cls, params) ==
    [pc |-> "start", cls |-> cls, params |-> params, master |-> 0, drew |-> FALSE]

InitThreads ==
    /\ InitDb
    /\ name_prefix = <<>>
    /\ id_in = <<>>
    /\ id_out = <<>>
    /\ name_in = None
    /\ name_out = None
    /\ wires_in = None
    /\ wires_out = None
    /\ threads \in [1..NumThreads ->
                       {Request(cls, params) :
                           cls \in Classes,
                           params \in {ParamN(PyInt(1)), ParamN(PyInt(2))}}]

ThreadStep(i, pc, thr) ==
    /\ threads[i].pc = pc
    /\ threads' = [threads EXCEPT ![i] = thr]
    /\ UNCHANGED <<stack, exc, last, layout, name_prefix,
                   id_in, id_out, name_in, name_out, wires_in, wires_out>>

\* line 187: master = temp_cls(self, self._lib_name, params, ...)
ThreadConstruct(i) ==
    /\ ThreadStep(i, "start",
                  [threads[i] EXCEPT !.pc = "check", !.master = NewId])
    /\ objs' = Append(objs, TemplateInit(threads[i].cls, threads[i].params,
                                         NoGrid))
    /\ UNCHANGED <<lookup, used_names, draw_calls>>

\* lines 188 to 191: the cache check, and the cached master on a hit
ThreadCheck(i) ==
    LET key == objs[threads[i].master].key
    IN  /\ ThreadStep(i, "check",
                IF CacheHit(key)
                THEN [threads[i] EXCEPT !.pc = "done",
                         !.master = HitMaster(threads[i].master, key)]
                ELSE [threads[i] EXCEPT !.pc = "draw"])
        /\ UNCHANGED <<objs, lookup, used_names, draw_calls>>

\* line 198: master.draw_layout()
ThreadDraw(i) ==
    /\ ThreadStep(i, "draw",
                  [threads[i] EXCEPT !.pc = "finalize", !.drew = TRUE])
    /\ draw_calls' = Append(draw_calls, threads[i].master)
    /\ UNCHANGED <<objs, lookup, used_names>>

\* line 199: master.finalize()
ThreadFinalize(i) ==
    /\ ThreadStep(i, "finalize", [threads[i] EXCEPT !.pc = "insert"])
    /\ objs' = [objs EXCEPT ![threads[i].master] = finalize(@)]
    /\ UNCHANGED <<lookup, used_names, draw_calls>>

\* line 201: self._template_lookup[key] = master
ThreadInsert(i) ==
    LET id == threads[i].master
        key == objs[id].key
    IN  /\ ThreadStep(i, "insert", [threads[i] EXCEPT !.pc = "name"])
        /\ lookup' = [k \in DOMAIN lookup \cup {key} |->
                         IF k = key THEN id ELSE lookup[k]]
        /\ UNCHANGED <<objs, used_names, draw_calls>>

\* line 202: self._used_cell_names.add(master.cell_name)
ThreadAddName(i) ==
    /\ ThreadStep(i, "name", [threads[i] EXCEPT !.pc = "done"])
    /\ used_names' = used_names \cup {objs[threads[i].master].cell_name}
    /\ UNCHANGED <<objs, lookup, draw_calls>>

NextThreads ==
    \/ \E i \in 1..NumThreads : ThreadConstruct(i)
    \/ \E i \in 1..NumThreads : ThreadCheck(i)
    \/ \E i \in 1..NumThreads : ThreadDraw(i)
    \/ \E i \in 1..NumThreads : ThreadFinalize(i)
    \/ \E i \in 1..NumThreads : ThreadInsert(i)
    \/ \E i \in 1..NumThreads : ThreadAddName(i)

SpecThreads == InitThreads /\ [][NextThreads]_vars

\* C25: of two new_template calls for one key whose steps interleave, the
\* drawing callback runs for at most one
C25_ConcurrentMissesDrawOnce ==
    \A i, j \in DOMAIN threads :
        (/\ i # j
         /\ threads[i].master # 0
         /\ threads[j].master # 0
         /\ threads[i].drew
         /\ threads[j].drew)
            => objs[draw_calls[1]].key # objs[draw_calls[2]].key

\* run one after the other, the second call is served from the cache
C25_Sequential ==
    /\ threads # <<>>
    /\ threads[1].pc = "done"
    /\ threads[2].pc = "done"
    /\ threads[1].drew
    /\ ~threads[2].drew
    /\ threads[2].master = threads[1].master

(***************************************************************************)
(* A TemplateDB constructed with a name prefix: __init__ stores it in      *)
(* _name_prefix (line 95), and no other line of the module reads it.       *)
(***************************************************************************)
PrefixInputs == {<<>>, <<"p">>}

InitPrefix ==
    /\ objs = <<>>
    /\ lookup = <<>>
    /\ used_names = {}
    /\ stack = <<>>
    /\ exc = FALSE
    /\ last = OpRecord("init", "none", 0, NoArg)
    /\ draw_calls = <<>>
    /\ layout = NoLayout
    /\ id_in = <<>>
    /\ id_out = <<>>
    /\ name_in = None
    /\ name_out = None
    /\ wires_in = None
    /\ wires_out = None
    /\ threads = <<>>
    /\ name_prefix \in PrefixInputs

SpecPrefix == InitPrefix /\ [][NextBatch]_vars

StartsWith(str, prefix) ==
    /\ Len(str) >= Len(prefix)
    /\ SubSeq(str, 1, Len(prefix)) = prefix

\* C26: every cell name a database with the prefix P allocates, and every
\* name it hands to the renderer for a template given no name of its own,
\* begins with P
C26_NamesCarryPrefix ==
    /\ \A i \in 1..Len(objs) : StartsWith(objs[i].cell_name, name_prefix)
    /\ (layout.status = "rendered" /\ layout.call.names = None) =>
          \A i \in 1..Len(layout.entries) :
              StartsWith(layout.entries[i].name, name_prefix)

\* a layout rendered under the default names by a database with a prefix
C26_Rendered ==
    /\ name_prefix # <<>>
    /\ layout.status = "rendered"
    /\ layout.call.names = None
    /\ layout.entries # <<>>

\* C27: once a template is in the cache under a key, the key maps to that
\* template in every later state, and no name leaves the used cell names
C27_CacheEntriesPermanent ==
    [][/\ \A k \in DOMAIN lookup :
             k \in DOMAIN lookup' /\ lookup'[k] = lookup[k]
       /\ used_names \subseteq used_names']_vars

\* C28: the identity key is a function of the class and the parameters
\* alone: templates of one class with equal parameters have equal keys
\* whatever their cell names and grids and however many calls came before,
\* so a request that differs from an earlier one in its grid only is
\* answered with the template the earlier one cached
C28_KeyIgnoresNameAndGrid ==
    /\ \A i, j \in 1..Len(objs) :
          (objs[i].cls = objs[j].cls /\ objs[i].params = objs[j].params)
              => objs[i].key = objs[j].key
    /\ \A i \in 1..Len(objs) :
          objs[i].key = compute_unique_key(objs[i].cls, objs[i].params)
    /\ \A i \in 1..Len(objs), j \in Cached :
          (/\ last.op = "new_template" /\ last.obj = i
           /\ last.result \in {"hit", "miss"}
           /\ objs[i].cls = objs[j].cls /\ objs[i].params = objs[j].params)
              => last.ret = j

\* a request with an explicit grid got the master cached for the grid of
\* the database, which has another cell name
C28_Witness ==
    /\ last.op = "new_template"
    /\ last.result = "hit"
    /\ objs[last.obj].grid = OtherGrid
    /\ objs[last.ret].grid = DbGrid
    /\ objs[last.obj].cell_name # objs[last.ret].cell_name
    /\ objs[last.obj].key = objs[last.ret].key

(***************************************************************************)
(* Requests that leave out a defaulted parameter or carry a parameter the  *)
(* class does not declare.                                                 *)
(***************************************************************************)
ParamNB(v, w) == PyDict(<<<<KeyN, v>>, <<KeyB, w>>>>)
DefaultParamInputs ==
    {ParamN(PyInt(1)), ParamNB(PyInt(1), PyInt(1)), ParamNB(PyInt(1), PyInt(2)),
     PyDict(<<<<KeyB, PyInt(1)>>, <<KeyN, PyInt(1)>>>>),
     ParamNA(PyInt(1), PyInt(5))}

NextDefaults ==
    \/ \E cls \in Classes, params \in DefaultParamInputs :
          NewTemplateCached(cls, params, NoGrid)
    \/ \E cls \in Classes, params \in DefaultParamInputs :
          NewTemplateDraw(cls, params, NoGrid)
    \/ NewTemplateReturn

SpecDefaults == Init /\ [][NextDefaults]_vars

\* the value a request gives a declared parameter: the entry of the
\* request, or the default of the class when the request has none
Requested(cls, params, k) ==
    IF k \in DictKeys(params[2]) THEN DictGet(params[2], k)
    ELSE DictGet(get_default_param_values(cls), k)

\* two requests agree on every parameter the class declares
Agree(cls, p1, p2) ==
    \A i \in 1..Len(get_params_info(cls)) :
        Requested(cls, p1, get_params_info(cls)[i])
            = Requested(cls, p2, get_params_info(cls)[i])

\* C29: two requests for one class that agree, once the defaults are
\* filled in, on every declared parameter have the same key, and a request
\* that agrees with the request of a cached template returns that template
C29_DefaultsAndUndeclared ==
    /\ \A i, j \in 1..Len(objs) :
          (objs[i].cls = objs[j].cls
           /\ Agree(objs[i].cls, objs[i].request, objs[j].request))
              => objs[i].key = objs[j].key
    /\ (last.op = "new_template" /\ last.result \in {"hit", "miss"}) =>
          \A j \in Cached :
              (objs[j].cls = objs[last.obj].cls
               /\ Agree(objs[j].cls, objs[j].request, objs[last.obj].request))
                  => last.ret = j

\* a request without b and with the undeclared a got the template cached
\* for a request that gave b its default value
C29_Witness ==
    /\ last.op = "new_template"
    /\ last.result = "hit"
    /\ objs[last.obj].request = ParamNA(PyInt(1), PyInt(5))
    /\ objs[last.ret].request = ParamNB(PyInt(1), PyInt(1))
    /\ last.ret \in Cached

\* another value for b gives another template
C29_OtherValue ==
    /\ last.op = "new_template"
    /\ last.result = "miss"
    /\ objs[last.obj].request = ParamNB(PyInt(1), PyInt(2))
    /\ \E j \in Cached : j # last.obj /\ objs[j].cls = objs[last.obj].cls

(***************************************************************************)
(* The entries batch_layout hands to the renderer, checked under           *)
(* SpecBatch.                                                              *)
(***************************************************************************)
\* name_list of the recorded call, None replaced by a list of None
CallNames ==
    IF layout.call.names = None
    THEN [i \in 1..Len(layout.call.templates) |-> <<>>]
    ELSE TheValue(layout.call.names)

\* the resolved top-level name of the i-th requested template
ResolvedName(i) == LayoutName(CallNames[i], objs[layout.call.templates[i]])

\* the templates reachable from the templates of S through children
RECURSIVE Reachable(_, _)
Reachable(S, n) ==
    IF n = 0 THEN S
    ELSE Reachable(S \cup {lookup[k] :
                              k \in UNION {TheValue(objs[m].children) : m \in S}},
                   n - 1)

RequestedTemplates ==
    {layout.call.templates[i] : i \in 1..Len(layout.call.templates)}

\* the cell names of the transitive children of the requested templates
ChildCellNames ==
    {objs[m].cell_name :
        m \in Reachable(UNION {{lookup[k] : k \in TheValue(objs[t].children)}
                                  : t \in RequestedTemplates}, Len(objs))}

ResolvedNames == {ResolvedName(i) : i \in 1..Len(layout.call.templates)}

\* flatten=True: the i-th entry is the i-th requested template under its
\* resolved name, and there is no other entry
FlatEntries ==
    /\ Len(layout.entries) = Len(layout.call.templates)
    /\ \A i \in 1..Len(layout.entries) :
          /\ layout.entries[i].name = ResolvedName(i)
          /\ layout.entries[i].master = layout.call.templates[i]

\* flatten=False: the names of the entries are the resolved names of the
\* requested templates and the cell names of their transitive children,
\* each once
HierEntries ==
    /\ DictNames(layout.entries) = ResolvedNames \cup ChildCellNames
    /\ \A i, j \in 1..Len(layout.entries) :
          layout.entries[i].name = layout.entries[j].name => i = j

\* C30, as claimed: a flattening batch_layout hands the renderer one entry
\* per requested template, in request order, under its resolved top-level
\* name and with that template's content, and nothing for the children; a
\* hierarchical one hands it one entry per distinct cell name among the
\* requested templates and their transitive children.
C30_RendererEntries ==
    layout.status = "rendered" =>
        IF layout.call.flatten THEN FlatEntries ELSE HierEntries

\* the resolved names of the call are pairwise distinct
DistinctResolved ==
    \A i, j \in 1..Len(layout.call.templates) :
        ResolvedName(i) = ResolvedName(j) => i = j

\* the same for the calls whose resolved names differ from one another
C30_DistinctNamesEntries ==
    (layout.status = "rendered" /\ DistinctResolved) =>
        IF layout.call.flatten THEN FlatEntries ELSE HierEntries

\* a flattening call for a parent, rendered without its child
C30_FlatParent ==
    /\ layout.status = "rendered"
    /\ layout.call.flatten
    /\ DistinctResolved
    /\ Len(layout.call.templates) = 2
    /\ ChildCellNames # {}
    /\ FlatEntries

(***************************************************************************)
(* The tracks and ranges of the wires connect_wires returns, checked       *)
(* under SpecWires.                                                        *)
(***************************************************************************)
\* the track positions, in half tracks, a wire array occupies
Positions(warr) ==
    {warr.track_id.base_index + i * warr.track_id.pitch :
        i \in 0..(warr.track_id.num - 1)}

PositionsOf(warrs) == UNION {Positions(warrs[k]) : k \in 1..Len(warrs)}

\* C31: in a successful call the track positions of the returned arrays
\* are the track positions of the input wires, each position of an input
\* wire lying in exactly one returned array
C31_ReturnedTracksAreInputTracks ==
    (Called /\ WiresOut.result = "ok") =>
        /\ PositionsOf(WiresOut.ret) = PositionsOf(WiresIn)
        /\ \A h \in PositionsOf(WiresIn) :
              \A j, k \in 1..Len(WiresOut.ret) :
                  (h \in Positions(WiresOut.ret[j])
                   /\ h \in Positions(WiresOut.ret[k])) => j = k

\* single wires of layer 1 on tracks 0, 2, 2.5 and 4, with two ranges
MaxRangeList == 4
RangeWireInputs ==
    {TrackWires(TrackID(1, h, 1, 1, 0), r[1], r[2]) :
        h \in {0, 4, 5, 8}, r \in RangeInputs}

InitRanges ==
    /\ InitDb
    /\ name_prefix = <<>>
    /\ id_in = <<>>
    /\ id_out = <<>>
    /\ name_in = None
    /\ name_out = None
    /\ \E n \in 0..MaxRangeList :
       \E ws \in [1..n -> RangeWireInputs] :
       \E tp \in TrackPitchInputs :
       \E e \in ExtendInputs :
          wires_in = Some([track_pitch |-> tp, wire_arr_list |-> ws,
                           lower |-> e[1], upper |-> e[2]])
    /\ wires_out = None
    /\ threads = <<>>

SpecRanges == InitRanges /\ [][NextWires]_vars

SetMin(S) == CHOOSE x \in S : \A y \in S : x <= y
SetMax(S) == CHOOSE x \in S : \A y \in S : x >= y

\* the input wires that occupy the track position h
WiresOn(h) == {k \in 1..Len(WiresIn) : h \in Positions(WiresIn[k])}

\* the union of the ranges of the input wires on h and of the lower and
\* upper arguments that are given
UnionOn(h) ==
    LET given == TheValue(wires_in).lower \cup TheValue(wires_in).upper
    IN  <<SetMin({WiresIn[k].lower : k \in WiresOn(h)} \cup given),
          SetMax({WiresIn[k].upper : k \in WiresOn(h)} \cup given)>>

\* C32: in a successful call the range of every returned array is, for
\* each track it covers that holds an input wire, the union of the ranges
\* of the input wires on that track and of the lower and upper arguments
C32_RangeIsUnionPerTrack ==
    (Called /\ WiresOut.result = "ok") =>
        \A k \in 1..Len(WiresOut.ret) :
            \A h \in Positions(WiresOut.ret[k]) \cap PositionsOf(WiresIn) :
                <<WiresOut.ret[k].lower, WiresOut.ret[k].upper>> = UnionOn(h)

\* the same for the returned arrays that hold one or two wires
C32_RangeIsUnionShortRuns ==
    (Called /\ WiresOut.result = "ok") =>
        \A k \in 1..Len(WiresOut.ret) :
            WiresOut.ret[k].track_id.num <= 2 =>
                \A h \in Positions(WiresOut.ret[k]) \cap PositionsOf(WiresIn) :
                    <<WiresOut.ret[k].lower, WiresOut.ret[k].upper>>
                        = UnionOn(h)

(***************************************************************************)
(* The wires and the track connect_to_tracks draws, checked under          *)
(* SpecTracks.                                                             *)
(***************************************************************************)
TracksIn == TheValue(wires_in)

\* [wl, wu]: the bounds of the target tracks, widened by wire_lower and
\* wire_upper when they are given
WireSpan ==
    LET b == get_bounds(TracksIn.track_pitch, TracksIn.track_id)
    IN  <<SetMin({b[1]} \cup TracksIn.wire_lower),
          SetMax({b[2]} \cup TracksIn.wire_upper)>>

\* the rectangles drawn on the layers next to the layer of the tracks
ConnectingRects ==
    {k \in 1..Len(WiresOut.rects) :
        WiresOut.rects[k].layer_id # TracksIn.track_id.layer_id}

\* C33: in a successful call every wire drawn on the adjacent layers
\* spans at least [wl, wu]
C33_ConnectingWiresSpanTracks ==
    (Called /\ WiresOut.result = "ok" /\ WiresIn # <<>>) =>
        /\ ConnectingRects # {}
        /\ \A k \in ConnectingRects :
              /\ WiresOut.rects[k].lower <= WireSpan[1]
              /\ WiresOut.rects[k].upper >= WireSpan[2]

\* wires that end below the upper track are drawn up to its upper edge
C33_Witness ==
    /\ Called
    /\ WiresOut.result = "ok"
    /\ TracksIn.wire_lower = None
    /\ TracksIn.wire_upper = None
    /\ TracksIn.track_id.num = 2
    /\ \A k \in 1..Len(WiresIn) : WiresIn[k].upper < WireSpan[2]
    /\ \E k \in ConnectingRects : WiresOut.rects[k].upper = WireSpan[2]

\* the extent along the tracks of the via on the i-th wire of a via array
ViaExtent(via, i) ==
    LET t == TrackInterval(TracksIn.track_pitch,
                           via.wire.base_index + i * via.wire.pitch,
                           via.wire.width)
    IN  <<t[1] - TracksIn.enc, t[2] + TracksIn.enc>>

ViaExtents ==
    UNION {{ViaExtent(WiresOut.vias[k], i) :
               i \in 0..(WiresOut.vias[k].wire.num - 1)}
           : k \in 1..Len(WiresOut.vias)}

\* C34: a successful call with wires returns the WireArray of the given
\* TrackID whose range is the smallest one holding track_lower and
\* track_upper, when given, and the extent on the track layer of every via
\* of the call; that array is the last one registered with the tracker
C34_TrackSpansViasAndBounds ==
    (Called /\ WiresOut.result = "ok" /\ WiresIn # <<>>) =>
        LET ret == TheValue(WiresOut.ret)
        IN  /\ WiresOut.ret # None
            /\ ret.track_id = TracksIn.track_id
            /\ WiresOut.vias # <<>>
            /\ ret.lower = SetMin({e[1] : e \in ViaExtents}
                                      \cup TracksIn.track_lower)
            /\ ret.upper = SetMax({e[2] : e \in ViaExtents}
                                      \cup TracksIn.track_upper)
            /\ WiresOut.tracked # <<>>
            /\ WiresOut.tracked[Len(WiresOut.tracked)] = ret

\* the upper end of the track is set by the second wire of a via array
C34_Witness ==
    /\ Called
    /\ WiresOut.result = "ok"
    /\ TracksIn.track_lower = None
    /\ TracksIn.track_upper = None
    /\ \E k \in 1..Len(WiresOut.vias) :
          /\ WiresOut.vias[k].wire.num = 2
          /\ TheValue(WiresOut.ret).upper = ViaExtent(WiresOut.vias[k], 1)[2]
          /\ TheValue(WiresOut.ret).upper > ViaExtent(WiresOut.vias[k], 0)[2]

\* the distinct intervals across the routing direction the wires occupy
FootprintsOf(ws) == UNION {Footprints(ws[k]) : k \in 1..Len(ws)}

\* C35: in a successful call with wires the num values of the returned
\* arrays add up to the number of distinct intervals the input wires
\* occupy, and the returned arrays come in increasing position of their
\* base track
C35_NumSumAndOrder ==
    (Called /\ WiresOut.result = "ok" /\ WiresIn # <<>>) =>
        /\ NumSum(WiresOut.ret) = Cardinality(FootprintsOf(WiresIn))
        /\ \A j, k \in 1..Len(WiresOut.ret) :
              j < k => WiresOut.ret[j].track_id.base_index
                           < WiresOut.ret[k].track_id.base_index

\* three wires handed over from the highest track down, two of them on
\* one track, come back as two arrays
C35_Witness ==
    /\ Called
    /\ WiresOut.result = "ok"
    /\ Len(WiresIn) = 3
    /\ WiresIn[1].track_id.base_index > WiresIn[2].track_id.base_index
    /\ Footprints(WiresIn[2]) = Footprints(WiresIn[3])
    /\ Len(WiresOut.ret) = 2
    /\ NumSum(WiresOut.ret) = 2

\* C36: a call that fails, for wires of different layers or for
\* overlapping wires, has drawn no rectangle and registered no wire
C36_FailureDrawsNothing ==
    (Called /\ WiresOut.result = "raise") =>
        /\ WiresOut.error \in {"layer", "overlap"}
        /\ WiresOut.rects = <<>>
        /\ WiresOut.tracked = <<>>

\* the third wire overlaps one of two wires that could have been drawn
C36_Witness ==
    /\ Called
    /\ Len(WiresIn) = 3
    /\ OneLayer(WiresIn)
    /\ ~Colliding(WiresIn[1], WiresIn[2])
    /\ Colliding(WiresIn[2], WiresIn[3])
    /\ WiresOut.result = "raise"
    /\ WiresOut.error = "overlap"
    /\ WiresOut.rects = <<>>

(***************************************************************************)
(* What batch_layout leaves of the database, checked under SpecBatch.      *)
(***************************************************************************)
\* C37: a batch_layout call, whether it renders or raises, leaves the
\* templates, the cache and the set of used cell names as they were
C37_BatchLayoutKeepsDatabase ==
    [][(layout' # layout) =>
           /\ objs' = objs
           /\ lookup' = lookup
           /\ used_names' = used_names]_vars

\* a rendered call whose top-level name is still free afterwards
C37_Witness ==
    /\ layout.status = "rendered"
    /\ layout.call.names # None
    /\ \E i \in 1..Len(CallNames) :
          CallNames[i] # <<>> /\ CallNames[i] \notin used_names

\* a call refused for a name in use
C37_Refused ==
    /\ layout.status = "name used"
    /\ lookup # <<>>

\* the transitive children of the requested templates
ChildTemplates ==
    Reachable(UNION {{lookup[k] : k \in TheValue(objs[t].children)}
                        : t \in RequestedTemplates}, Len(objs))

\* the masters of the entries handed over under a name
MastersUnder(name) ==
    {layout.entries[j].master :
        j \in {i \in 1..Len(layout.entries) : layout.entries[i].name = name}}

\* every requested template is emitted under its resolved name and every
\* transitive child under its cell name
HierContent ==
    /\ \A i \in 1..Len(layout.call.templates) :
          MastersUnder(ResolvedName(i)) = {layout.call.templates[i]}
    /\ \A m \in ChildTemplates :
          MastersUnder(objs[m].cell_name) = {m}

\* C38, as claimed: in a hierarchical batch_layout the entry under the
\* resolved name of each requested template carries that template and the
\* entry under the cell name of each transitive child carries that child
C38_HierarchicalContent ==
    (layout.status = "rendered" /\ ~layout.call.flatten) => HierContent

\* the same for calls whose resolved names differ from one another, in a
\* database whose cell names are distinct
C38_DistinctNamesContent ==
    (/\ layout.status = "rendered"
     /\ ~layout.call.flatten
     /\ DistinctResolved
     /\ C3_CellNamesUnique) => HierContent

\* the same when only the resolved names are required to differ
C38_DistinctResolvedContent ==
    (/\ layout.status = "rendered"
     /\ ~layout.call.flatten
     /\ DistinctResolved) => HierContent

(***************************************************************************)
(* connect_differential_tracks with an empty group, checked under          *)
(* SpecDiff.                                                               *)
(***************************************************************************)
\* C39: a call with no positive wires returns (None, None) and draws
\* nothing, whatever the negative wires are; a call with positive wires
\* and no negative wires that returns gives the track of the positive side
\* and None for the negative side
C39_EmptyGroups ==
    Called =>
        /\ DiffIn.pwarr_list = <<>> =>
              /\ WiresOut.result = "ok"
              /\ WiresOut.ret = <<None, None>>
              /\ WiresOut.rects = <<>>
              /\ WiresOut.vias = <<>>
        /\ (/\ DiffIn.pwarr_list # <<>>
            /\ DiffIn.nwarr_list = <<>>
            /\ WiresOut.result = "ok") =>
              /\ WiresOut.ret[1] # None
              /\ TheValue(WiresOut.ret[1]).track_id
                     = TrackID(DiffIn.tr_layer_id, DiffIn.ptr_idx,
                               DiffIn.width, 1, 0)
              /\ WiresOut.ret[2] = None
              /\ \A k \in 1..Len(WiresOut.vias) :
                    WiresOut.vias[k].track.base_index = DiffIn.ptr_idx

\* positive wires connected with no negative wire
C39_Witness ==
    /\ Called
    /\ Len(DiffIn.pwarr_list) = 2
    /\ DiffIn.nwarr_list = <<>>
    /\ WiresOut.result = "ok"
    /\ WiresOut.ret[1] # None
    /\ WiresOut.ret[2] = None
    /\ WiresOut.vias # <<>>

\* no positive wire and two negative wires of different layers
C39_OnlyNegative ==
    /\ Called
    /\ DiffIn.pwarr_list = <<>>
    /\ Len(DiffIn.nwarr_list) = 2
    /\ ~OneLayer(DiffIn.nwarr_list)
    /\ WiresOut.ret = <<None, None>>

=============================================================================
